---- MODULE Spec2Model ----
(***************************************************************************)
(* Model of src/pubMedArticleGrabber.py (class PubMedArticleGrabber): the  *)
(* identifier translators (pmidTodoi, pmidTopmcid), the Crossref metadata  *)
(* loop of grabViaCrossref and the download functions, with the CSV files  *)
(* they use as registries.                                                 *)
(*                                                                         *)
(* Strings are sequences of one-character strings, so that Python's        *)
(* set(str), str.lower() and str.split() are modelled by what they do.     *)
(* A CSV file is a record [exists, rows] whose rows form a bag: every      *)
(* reader in the source builds sets from the rows or counts them, and no   *)
(* reader depends on their order.                                          *)
(***************************************************************************)
EXTENDS Integers, Sequences, FiniteSets, Bags, TLC

VARIABLES
    \* ---- the process and the caller's collection
    pmidsIn,        \* the PMIDs given to the constructor (line 51), the same on every run
    entry,          \* the method the script calls on the grabber in every run
    selfPmids,      \* self.pmids of the live process, mutated in place by pmidTopmcid
    pc,             \* position of the live process
    calls,          \* number of translator calls made so far (bounded by MaxCalls)
    \* ---- registry files of the translators
    doisCsv,        \* dois.csv                  rows <<PMID, DOI>>
    unicodeCsv,     \* unicode Error pmids.csv   rows <<PMID>>
    nfPmidsCsv,     \* not Found pmids.csv       rows <<PMID>>
    nfDoisCsv,      \* not Found dois.csv        rows <<PMID>>
    pmcidsCsv,      \* pmcids.csv                rows <<PMID, PMCID>>
    \* ---- locals of pmidTodoi / pmidTopmcid
    todo,           \* identifiers the for loop has not visited yet
    total,          \* len(pmids) of line 435
    counter,        \* counter of line 407
    cur,            \* the loop variable pmid
    summaryHandle,  \* the local summaryHandle: unbound, or the identifier it was opened for
    pmid_doi,       \* accumulator dict, as a set of <<pmid, doi>>
    unicodeErrorpmids,
    notFoundpmids,
    notFounddoisT,  \* the accumulator notFounddois of pmidTodoi
    row,            \* the row pmidTopmcid is about to write
    unwritten,      \* outcomes the live process obtained that are in no registry file yet
    oaiTodo,        \* getFullText: the PMCIDs still to fetch
    noTxt,          \* getFullText: the PMCIDs whose record has no body text
    xmlFiles,       \* full text/pmcid/xml/: the PMCIDs a record was fetched for
    noTxtCsv,       \* full text/txt/noTxt.csv       rows <<PMCID>>
    lastReq,        \* the last request sent to a remote service, with what the registries said then
    runStart        \* the batch of the process's last call of pmidTodoi and the registries it found

VARIABLES
    \* ---- grabViaCrossref, lines 68-132: the metadata loop
    doisCsvIn,      \* set(dois['DOI']) of line 70: the DOI column of dois.csv
    crAnswer,       \* what the metadata service answers for each DOI, the same on every call
    crBound,        \* whether the module's globals bind the name cr that line 108 looks up
    notFoundCsv,    \* full text/doi/dois notFoundin crossRef.csv   rows <<DOI>>
    articlesPkl,    \* articles.pkl: the 'DOI' of each pickled record
    rpc,            \* position of the live process in grabViaCrossref
    dois,           \* the local dois: the DOIs still to resolve
    articles,       \* the local articles: the 'DOI' of each collected record
    notFounddois,   \* the local notFounddois
    firstTime,      \* line 87
    lenOfIn,        \* line 99
    rtodo,          \* DOIs the for loop of line 106 has not visited yet
    rounds,         \* rounds of the while loop run by the live process (bounded by MaxRounds)
    runs,           \* processes started on the metadata stage (bounded by MaxRuns)
    prevRemaining,  \* the remaining set the previous round computed
    raised,         \* the exception that ended the last process, if one did
    killed,         \* whether a process was killed before it finished
    completions,    \* runs that reached the end of the metadata stage
    firstResult,    \* the registries as the first finished run left them
    lastWorks       \* the last cr.works request, with what the not-found registry said then

rvars == <<doisCsvIn, crAnswer, crBound, notFoundCsv, articlesPkl, rpc, dois, articles, notFounddois,
           firstTime, lenOfIn, rtodo, rounds, runs, prevRemaining, raised, killed, completions,
           firstResult, lastWorks>>

VARIABLES
    \* ---- download, downloadViaRequests, downloadViaUrlLib
    artifacts,      \* the files under full text/doi3/, by path
    downloadableCsv,\* full text/doi/downloadable dois.csv   rows <<DOI, URL, EXT>>
    badUrlsCsv,     \* full text/doi/bad urls.csv            rows <<DOI, URL, ERROR>>
    fetches,        \* calls of download made so far (bounded by MaxFetches)
    lastFetch       \* the last call of download: its arguments, what it met, the files before it

fvars == <<artifacts, downloadableCsv, badUrlsCsv, fetches, lastFetch>>

VARIABLES
    \* ---- one call of decideExtension, getCambridgeURL or fixSpringerLinkURL
    fnIn,           \* the function called and its argument
    fnOut,          \* what the call returned or raised
    fnPc            \* "off", "call" before the call, "done" after it

pvars == <<fnIn, fnOut, fnPc>>

VARIABLES
    \* ---- the download stage of grabViaCrossref (lines 152-229)
    dpc,              \* "off", "load", "initial", "retryLoad", "retry", "done", "raised"
    dErr,             \* the exception that ended the stage, "none" without one
    articlesURLs,     \* the <<DOI, URL>> pairs the first pass has still to go through
    downloadableURLs, \* the URL column of downloadable dois.csv as last read
    badURLs,          \* the URL column of bad urls.csv as last read
    badArticles,      \* the rows of bad urls.csv the retry pass has still to go through
    retryLenOfIn,     \* lenOfIn of the retry loop (line 196)
    retryLenOfOut,    \* lenOfOut of the retry loop (line 197)
    passes,           \* retry passes finished
    handed,           \* the last URL handed to download and whether it was known
    skipped,          \* the last URL not handed to download
    passHanded,       \* the URLs handed to download in the pass under way
    articleLinks,     \* the metadata records still to look at: DOI and links, NoLinks without 'link'
    doisWithNoLink,   \* the DOIs whose record gave no link (line 135)
    doisWithNoLinkCsv \* full text/doi/dois With No Link.csv

dvars == <<dpc, dErr, articlesURLs, downloadableURLs, badURLs, badArticles, retryLenOfIn,
           retryLenOfOut, passes, handed, skipped, passHanded, articleLinks, doisWithNoLink,
           doisWithNoLinkCsv>>

linkvars == <<articleLinks, doisWithNoLink, doisWithNoLinkCsv>>

tvars == <<pmidsIn, entry, selfPmids, pc, calls, doisCsv, unicodeCsv, nfPmidsCsv, nfDoisCsv,
           pmcidsCsv, todo, total, counter, cur, summaryHandle, pmid_doi,
           unicodeErrorpmids, notFoundpmids, notFounddoisT, row, unwritten, oaiTodo, noTxt,
           xmlFiles, noTxtCsv, lastReq, runStart>>

vars == <<tvars, rvars, fvars, pvars, dvars>>

\* ------------------------------------------------------------------ bounds
MaxCalls == 2       \* translator calls explored in one behaviour
MaxRounds == 3      \* rounds of the metadata loop explored in one run
MaxRuns == 2        \* processes started on the metadata stage in one behaviour
MaxFetches == 2     \* calls of download explored in one behaviour
FlushEvery == 2     \* the flush interval of line 435 (1000 in the source), scaled down

\* ------------------------------------------------------------------ strings
None == <<"None">>
Max(S) == CHOOSE x \in S : \A y \in S : y <= x

\* set(s) for a Python str s: the set of its one-character strings
Chars(s) == { <<s[i]>> : i \in 1..Len(s) }

LowerChar(c) ==
    CASE c = "A" -> "a" [] c = "B" -> "b" [] c = "O" -> "o"
      [] c = "R" -> "r" [] c = "G" -> "g" [] OTHER -> c

UpperChar(c) ==
    CASE c = "a" -> "A" [] c = "b" -> "B" [] c = "o" -> "O"
      [] c = "r" -> "R" [] c = "g" -> "G" [] OTHER -> c

\* the same DOI in upper case (DOIs are case-insensitive for the services)
Upper(s) == [i \in 1..Len(s) |-> UpperChar(s[i])]

\* str.lower()
Lower(s) == [i \in 1..Len(s) |-> LowerChar(s[i])]

OrgSlash == <<"o", "r", "g", "/">>

\* extractDOI: doiLinkOrTag.split('org/')[-1], the text after the last 'org/'
extractDOI(s) ==
    LET at == { i \in 1..(Len(s) - 3) : SubSeq(s, i, i + 3) = OrgSlash }
    IN  IF at = {} THEN s ELSE SubSeq(s, Max(at) + 4, Len(s))

\* ------------------------------------------------------------------ CSV files
NoFile == [exists |-> FALSE, rows |-> EmptyBag]

\* open(name, 'a') followed by writer.writerows: creates the file, appends the rows
appendRows(f, rs) == [exists |-> TRUE, rows |-> f.rows (+) SetToBag(rs)]

\* listTocsvRows: one single-cell row per element of li
listTocsvRows(li, f) == appendRows(f, { <<i>> : i \in li })

PmidHeader == <<"P", "M", "I", "D">>
DoiHeader == <<"D", "O", "I">>
PmcidHeader == <<"P", "M", "C", "I", "D">>

\* checkHeaders: writes the header row when the file does not exist yet
checkHeaders(f, headers) ==
    IF f.exists THEN f ELSE [exists |-> TRUE, rows |-> SetToBag({headers})]

\* dictTocsv: checkHeaders, then one row <<key, value>> per item
dictTocsv(mydict, f, headers) == appendRows(checkHeaders(f, headers), mydict)

\* writecsvRow: checkHeaders, then the row
writecsvRow(f, r, headers) == appendRows(checkHeaders(f, headers), {r})

\* set(csvTolist(name)) for a file of single-cell rows: a row of one cell becomes
\* the cell, and a list of exactly one cell becomes that cell, a str, whose
\* set() is the set of its characters (lines 711-716)
csvTolistSet(f) ==
    IF BagCardinality(f.rows) = 1
    THEN Chars((CHOOSE r \in BagToSet(f.rows) : TRUE)[1])
    ELSE { r[1] : r \in BagToSet(f.rows) }

\* set(csvTodict(name).keys()): the first cell of every row, header included
csvTodictKeys(f) == { r[1] : r \in BagToSet(f.rows) }

\* ------------------------------------------------------------------ decideExtension
Letters == { "a", "b", "c", "d", "e", "f", "g", "h", "i", "j", "k", "l", "m", "n", "o", "p", "q", "r", "s", "t", "u", "v", "w", "x", "y", "z", "A", "B", "C", "D", "E", "F", "G", "H", "I", "J", "K", "L", "M", "N", "O", "P", "Q", "R", "S", "T", "U", "V", "W", "X", "Y", "Z" }

\* the positions of character c in s
positions(s, c) == { i \in 1..Len(s) : s[i] = c }

\* s.split(c)[-1]
afterLast(s, c) ==
    IF positions(s, c) = {} THEN s ELSE SubSeq(s, Max(positions(s, c)) + 1, Len(s))

\* s.split(c)[0]
beforeFirst(s, c) ==
    IF positions(s, c) = {} THEN s
    ELSE SubSeq(s, 1, (CHOOSE i \in positions(s, c) : \A j \in positions(s, c) : i <= j) - 1)

\* sub in s
contains(s, sub) ==
    \E i \in 1..(Len(s) - Len(sub) + 1) : SubSeq(s, i, i + Len(sub) - 1) = sub

isExtension(t) == Len(t) >= 3 /\ Len(t) <= 10 /\ \A i \in 1..Len(t) : t[i] \in Letters

\* lines 459-464: re.findall('.+\.([a-zA-Z]{3,10})"?$', s): 3 to 10 letters after the
\* last dot, which is not the first character, up to the end or to a closing quote
getExtension(s) ==
    LET dots == positions(s, ".")
        p == Max(dots)
        tail == SubSeq(s, p + 1, Len(s))
        unquoted == SubSeq(s, p + 1, Len(s) - 1)
    IN  IF dots = {} \/ p < 2 THEN None
        ELSE IF isExtension(tail) THEN tail
        ELSE IF Len(tail) >= 1 /\ tail[Len(tail)] = "\"" /\ isExtension(unquoted)
             THEN unquoted
        ELSE None

TypeError == <<"TypeError">>
ApiElsevier == <<"a", "p", "i", ".", "e", "l", "s", "e", "v", "i", "e", "r">>
ExtPlain == <<"p", "l", "a", "i", "n">>
ExtHtm == <<"h", "t", "m">>
ExtHtml == <<"h", "t", "m", "l">>
ExtTxt == <<"t", "x", "t">>
ExtMsword == <<"m", "s", "w", "o", "r", "d">>
ExtDoc == <<"d", "o", "c">>
ExtOctetStream == <<"o", "c", "t", "e", "t", "-", "s", "t", "r", "e", "a", "m">>
ExtPdf == <<"p", "d", "f">>
Unspecified == <<"u", "n", "s", "p", "e", "c", "i", "f", "i", "e", "d">>

truthy(x) == x # None /\ x # <<>>

\* lines 484-497: the extension by precedence
extByPrecedence(contentType, crContentType, contentDisposition, url) ==
    IF truthy(contentType) THEN beforeFirst(afterLast(contentType, "/"), ";")
    ELSE IF truthy(crContentType) /\ crContentType # Unspecified
         THEN beforeFirst(afterLast(crContentType, "/"), ";")
    ELSE IF truthy(contentDisposition) THEN getExtension(contentDisposition)
    ELSE IF url = None THEN TypeError
    ELSE getExtension(url)

\* mutant of decideExtension: "plain" and "htm" become "html" before the vendor test
decideExtensionVendorLast(contentType, crContentType, contentDisposition, url) ==
    LET ext == extByPrecedence(contentType, crContentType, contentDisposition, url)
    IN  IF ext = TypeError \/ url = None THEN TypeError
        ELSE IF ext \in {ExtPlain, ExtHtm} THEN ExtHtml
        ELSE IF contains(url, ApiElsevier) /\ ext = ExtHtml THEN ExtTxt
        ELSE IF ext = ExtMsword THEN ExtDoc
        ELSE IF ext = ExtOctetStream THEN ExtPdf
        ELSE ext

\* lines 500-509: the overrides
decideExtension(contentType, crContentType, contentDisposition, url) ==
    LET ext == extByPrecedence(contentType, crContentType, contentDisposition, url)
    IN  IF ext = TypeError \/ url = None THEN TypeError
        ELSE IF contains(url, ApiElsevier) /\ ext \in {ExtPlain, ExtHtm, ExtHtml} THEN ExtTxt
        ELSE IF ext \in {ExtPlain, ExtHtm} THEN ExtHtml
        ELSE IF ext = ExtMsword THEN ExtDoc
        ELSE IF ext = ExtOctetStream THEN ExtPdf
        ELSE ext

\* ------------------------------------------------------------------ createFile
\* lines 537-547
notAllowedCharReplacement(c) ==
    CASE c = "/" -> "-" [] c = "\\" -> "-" [] c = ">" -> "}" [] c = "<" -> "{"
      [] c = ":" -> "_" [] c = "?" -> "!" [] c = "\"" -> "'" [] c = "*" -> "+"
      [] c = "|" -> "$" [] OTHER -> c

\* multireplace(doi, notAllowedCharReplacements): every key is one character
multireplace(s) == [i \in 1..Len(s) |-> notAllowedCharReplacement(s[i])]

\* lines 548-555: the path, as <<directory under full text/doi3, file name>>
createFile(doi, ext) ==
    IF truthy(ext) THEN <<ext, multireplace(doi) \o <<".">> \o ext>>
    ELSE <<<<"o", "t", "h", "e", "r">>, multireplace(doi)>>

\* ------------------------------------------------------------------ remote services
PMIDS == { <<"1">>, <<"2">>, <<"1", "2">> }

\* esummary records (the fields pmidEntrezSummaryRecordTodoi probes); None: field absent
SummaryRecords ==
    { [DOI |-> <<"o", "r", "g", "/", "A">>, ArticleIdsDoi |-> None, ELocationID |-> None],
      [DOI |-> <<>>, ArticleIdsDoi |-> <<"A">>, ELocationID |-> None],
      [DOI |-> None, ArticleIdsDoi |-> None, ELocationID |-> <<"d", "o", "i", ":", " ", "a">>],
      [DOI |-> None, ArticleIdsDoi |-> <<>>, ELocationID |-> None] }

\* what Entrez.read(summaryHandle) can give for a fresh handle
ReadOutcomes ==
    { [kind |-> "record", rec |-> r] : r \in SummaryRecords }
      \cup { [kind |-> "unicode", rec |-> None], [kind |-> "norecord", rec |-> None] }

\* elink results: result[0]['LinkSetDb'], a list of link sets, each a list of link Ids
LinkSetDbs ==
    { <<>>, << <<<<"3", "4">>>> >>, << <<<<"3", "4">>>>, <<<<"5">>>> >> }

\* ------------------------------------------------------------------ pmidEntrezSummaryRecordTodoi
StripSet == { "d", "o", "i", ":", " " }

\* str.strip('doi: '): drops leading and trailing characters that are in the set
strip(s) ==
    LET keep == { i \in 1..Len(s) : s[i] \notin StripSet }
    IN  IF keep = {} THEN <<>>
        ELSE SubSeq(s, CHOOSE i \in keep : \A j \in keep : i <= j, Max(keep))

NoDoi == <<"ValueError">>

\* lines 341-371: the first non-empty of DOI, ArticleIds.doi, stripped ELocationID
pmidEntrezSummaryRecordTodoi(rec) ==
    IF rec.DOI # None /\ rec.DOI # <<>> THEN rec.DOI
    ELSE IF rec.ArticleIdsDoi # None /\ rec.ArticleIdsDoi # <<>> THEN rec.ArticleIdsDoi
    ELSE IF rec.ELocationID # None /\ strip(rec.ELocationID) # <<>>
         THEN strip(rec.ELocationID)
    ELSE NoDoi

\* ------------------------------------------------------------------ the process
Unbound == [state |-> "unbound", id |-> None]
NoRun == [pmids |-> {}, dois |-> NoFile, unicode |-> NoFile, nfPmids |-> NoFile,
          nfDois |-> NoFile]
NoReq == [kind |-> "none", id |-> None, wasDone |-> FALSE, wasNotFound |-> FALSE,
          requested |-> FALSE, result |-> None]

\* the rows of a single-cell registry file, as written
Cells(f) == { r[1] : r \in BagToSet(f.rows) }

\* the outcomes of S that the file named n, with content f, does not hold
notIn(S, n, f) == { o \in S : ~(o.file = n /\ o.row \in BagToSet(f.rows)) }

clearLocals ==
    /\ todo' = {}
    /\ total' = 0
    /\ counter' = 0
    /\ cur' = None
    /\ summaryHandle' = Unbound
    /\ pmid_doi' = {}
    /\ unicodeErrorpmids' = {}
    /\ notFoundpmids' = {}
    /\ notFounddoisT' = {}
    /\ row' = None
    /\ unwritten' = {}

files == <<doisCsv, unicodeCsv, nfPmidsCsv, nfDoisCsv, pmcidsCsv>>
oaiFiles == <<xmlFiles, noTxtCsv>>
oaivars == <<oaiTodo, noTxt, xmlFiles, noTxtCsv>>
accs == <<pmid_doi, unicodeErrorpmids, notFoundpmids, notFounddoisT>>


\* ------------------------------------------------------------------ the metadata stage
\* DOIs the lookup service can report, and what pmidTodoi writes to dois.csv for them
EntrezDois == { <<"A", "B">>, <<"o", "r", "g", "/", "a">>, <<"O", "R", "G", "/", "b">> }
DoiValues == { Lower(extractDOI(d)) : d \in EntrezDois }

\* cr.works(ids=doi): a record whose 'DOI' is the DOI as asked or in upper case, or
\* an HTTPError whose text holds 'Not Found'
CrAnswers == { "record", "recordUpper", "notfound" }

NoPickle == [exists |-> FALSE, dois |-> {}]
NoRound == [known |-> FALSE, remaining |-> {}]
NoResult == [known |-> FALSE, notFound |-> {}, articles |-> {}]
NoWorks == [asked |-> FALSE, id |-> None, wasNotFound |-> FALSE]

\* the resolver's registries, as sets
registries(nf, pkl) == [known |-> TRUE, notFound |-> Cells(nf), articles |-> pkl.dois]

resolveIdle ==
    /\ doisCsvIn = {}
    /\ crAnswer = [d \in DoiValues |-> "record"]
    /\ crBound = FALSE
    /\ notFoundCsv = NoFile
    /\ articlesPkl = NoPickle
    /\ rpc = "off"
    /\ dois = {}
    /\ articles = {}
    /\ notFounddois = {}
    /\ firstTime = TRUE
    /\ lenOfIn = 0
    /\ rtodo = {}
    /\ rounds = 0
    /\ runs = 0
    /\ prevRemaining = NoRound
    /\ raised = "no"
    /\ killed = FALSE
    /\ completions = 0
    /\ firstResult = NoResult
    /\ lastWorks = NoWorks

translateIdle ==
    /\ pmidsIn = {}
    /\ entry = "none"
    /\ selfPmids = {}
    /\ pc = "off"
    /\ calls = 0
    /\ doisCsv = NoFile
    /\ unicodeCsv = NoFile
    /\ nfPmidsCsv = NoFile
    /\ nfDoisCsv = NoFile
    /\ pmcidsCsv = NoFile
    /\ todo = {}
    /\ total = 0
    /\ counter = 0
    /\ cur = None
    /\ summaryHandle = Unbound
    /\ pmid_doi = {}
    /\ unicodeErrorpmids = {}
    /\ notFoundpmids = {}
    /\ notFounddoisT = {}
    /\ row = None
    /\ unwritten = {}
    /\ oaiTodo = {}
    /\ noTxt = {}
    /\ xmlFiles = {}
    /\ noTxtCsv = NoFile
    /\ lastReq = NoReq
    /\ runStart = NoRun

\* ------------------------------------------------------------------ web servers
SizeofBytes == 33   \* sys.getsizeof(b''), the overhead sys.getsizeof adds to len(content)
DedupOffset == 33   \* the 33 of lines 634 and 681

FetchDois == { <<"a">>, <<"a", "/", "b">> }
FetchUrls == { <<"h", "/", "x", ".", "p", "d", "f">>, <<"h", "/", "y">> }
ContentTypes == { None, <<"a", "p", "p", "l", "i", "c", "a", "t", "i", "o", "n", "/", "p", "d", "f">> }
ContentDispositions == { None, <<"a", "t", "t", "a", "c", "h", "m", "e", "n", "t", ";", " ", "f", "i", "l", "e", "n", "a", "m", "e", "=", "\"", "x", ".", "d", "o", "c", "\"">> }
\* response bodies: the number of bytes and a tag telling equal-sized bodies apart
Bodies == { [len |-> 0, tag |-> "p"], [len |-> 5, tag |-> "p"],
            [len |-> 38, tag |-> "p"], [len |-> 38, tag |-> "q"] }

\* requests.head: status 200, another status, ConnectionError or TooManyRedirects,
\* or an exception download does not catch
ProbeOutcomes == { "ok", "notOk", "connError", "fatal" }

\* a numeric response header
NoHeader == [present |-> FALSE, value |-> 0]
Header(n) == [present |-> TRUE, value |-> n]

\* a probe: its outcome, the rate-limit headers of its response (the reset header
\* counts milliseconds) and time.time() when the headers are looked at, in
\* milliseconds
Probes(outcomes, remainings, resets, clocks) ==
    { [status |-> o, remaining |-> IF o \in {"ok", "notOk"} THEN rm ELSE NoHeader,
       reset |-> IF o \in {"ok", "notOk"} THEN rs ELSE NoHeader, now |-> t] :
        o \in outcomes, rm \in remainings, rs \in resets, t \in clocks }

\* probes of servers that send no rate-limit header
PlainProbes == Probes(ProbeOutcomes, {NoHeader}, {NoHeader}, {0})

\* probes of a rate-limited server
RateLimitRemainings == { NoHeader, Header(1), Header(2) }
RateLimitResets == { NoHeader, Header(500), Header(2000), Header(2300) }
RateLimitClocks == { 1500, 2000, 3200 }
RateLimitedProbes ==
    Probes(ProbeOutcomes, RateLimitRemainings, RateLimitResets, RateLimitClocks)

\* what the full request ends in: a response, or an exception. "http" stands
\* for HTTPError, a timeout or an SSL error; "connection" for
\* requests.exceptions.ConnectionError (urllib: URLError, ConnectionResetError);
\* "redirects" for requests.exceptions.TooManyRedirects (urllib reports a
\* redirect loop as HTTPError); "fatal" for any other exception
FetchErrors == { "http", "connection", "redirects", "fatal" }

FetchOutcomes ==
    { [kind |-> "response", contentType |-> ct, contentDisposition |-> cd, body |-> b] :
        ct \in ContentTypes, cd \in ContentDispositions, b \in Bodies }
    \cup { [kind |-> k, contentType |-> None, contentDisposition |-> None,
            body |-> [len |-> 0, tag |-> "p"]] : k \in FetchErrors }

ErrorText == <<"E">>
NoArtifact == [exists |-> FALSE, len |-> 0, tag |-> "p"]

\* every extension decideExtension can give for the responses above
FetchExts ==
    { decideExtension(ct, None, cd, u) :
        ct \in ContentTypes, cd \in ContentDispositions, u \in FetchUrls }

Paths == { createFile(d, e) : d \in FetchDois, e \in FetchExts }

DoiUrlExtHeader == <<DoiHeader, <<"U", "R", "L">>, <<"E", "X", "T">>>>
DoiUrlErrorHeader == <<DoiHeader, <<"U", "R", "L">>, <<"E", "R", "R", "O", "R">>>>

NoFetch == [outcome |-> "none", doi |-> None, url |-> None, probe |-> "none",
            transport |-> "none", error |-> "none", logged |-> FALSE,
            len |-> 0, ext |-> None, path |-> None,
            before |-> [q \in Paths |-> NoArtifact],
            downloadableBefore |-> NoFile, badBefore |-> NoFile,
            remaining |-> NoHeader, reset |-> NoHeader, now |-> 0, start |-> 0]

functionsIdle ==
    /\ fnIn = None
    /\ fnOut = None
    /\ fnPc = "off"

fetchIdle ==
    /\ artifacts = [q \in Paths |-> NoArtifact]
    /\ downloadableCsv = NoFile
    /\ badUrlsCsv = NoFile
    /\ fetches = 0
    /\ lastFetch = NoFetch

NoHandOff == [url |-> None, known |-> FALSE, stage |-> "none", again |-> FALSE,
              downloadable |-> FALSE]
NoSkip == [url |-> None, rewritten |-> FALSE, stage |-> "none"]

downloadIdle ==
    /\ dpc = "off"
    /\ dErr = "none"
    /\ articlesURLs = {}
    /\ downloadableURLs = {}
    /\ badURLs = {}
    /\ badArticles = EmptyBag
    /\ retryLenOfIn = 1
    /\ retryLenOfOut = 0
    /\ passes = 0
    /\ handed = NoHandOff
    /\ skipped = NoSkip
    /\ passHanded = {}
    /\ articleLinks = {}
    /\ doisWithNoLink = {}
    /\ doisWithNoLinkCsv = NoFile

\* pmcids.csv as a run of grabViaPMCOAI on another input left it
EarlierPmcidsCsv ==
    [exists |-> TRUE, rows |-> SetToBag({<<PmidHeader, PmcidHeader>>, <<<<"9">>, <<"7">>>>})]

InitTranslate ==
    /\ pmidsIn \in SUBSET PMIDS
    /\ entry \in {"pmidTodoi", "pmidTopmcid"}
    /\ selfPmids = pmidsIn
    /\ pc = "idle"
    /\ calls = 0
    /\ doisCsv = NoFile
    /\ unicodeCsv = NoFile
    /\ nfPmidsCsv = NoFile
    /\ nfDoisCsv = NoFile
    /\ pmcidsCsv = NoFile
    /\ oaiTodo = {}
    /\ noTxt = {}
    /\ xmlFiles = {}
    /\ noTxtCsv = NoFile
    /\ todo = {}
    /\ total = 0
    /\ counter = 0
    /\ cur = None
    /\ summaryHandle = Unbound
    /\ pmid_doi = {}
    /\ unicodeErrorpmids = {}
    /\ notFoundpmids = {}
    /\ notFounddoisT = {}
    /\ row = None
    /\ unwritten = {}
    /\ lastReq = NoReq
    /\ runStart = NoRun
    /\ resolveIdle
    /\ fetchIdle
    /\ functionsIdle
    /\ downloadIdle

\* __init__ (lines 38-53) in a new process, after the previous one ended
Construct ==
    /\ pc = "dead"
    /\ pc' = "idle"
    /\ selfPmids' = pmidsIn
    /\ clearLocals
    /\ runStart' = NoRun
    /\ UNCHANGED <<pmidsIn, entry, calls, files, lastReq>>
    /\ oaiTodo' = {}
    /\ noTxt' = {}
    /\ UNCHANGED <<oaiFiles, rvars, fvars, pvars, dvars>>

\* the process is killed, or an uncaught exception ends it: its memory is lost
Kill ==
    /\ pc \notin {"dead"}
    /\ pc' = "dead"
    /\ selfPmids' = {}
    /\ clearLocals
    /\ runStart' = NoRun
    /\ UNCHANGED <<pmidsIn, entry, calls, files, lastReq>>
    /\ oaiTodo' = {}
    /\ noTxt' = {}
    /\ UNCHANGED <<oaiFiles, rvars, fvars, pvars, dvars>>

\* pmidTodoi, lines 379-407: read the registries, subtract them from the input
pmidTodoiStart ==
    /\ pc = "idle"
    /\ entry = "pmidTodoi"
    /\ calls < MaxCalls
    /\ calls' = calls + 1
    /\ LET found == unicodeCsv.exists /\ nfPmidsCsv.exists /\ nfDoisCsv.exists
                    /\ doisCsv.exists
           uni == IF found THEN csvTolistSet(unicodeCsv) ELSE {}
           nfp == IF found THEN csvTolistSet(nfPmidsCsv) ELSE {}
           nfd == IF found THEN csvTolistSet(nfDoisCsv) ELSE {}
           keys == IF found THEN csvTodictKeys(doisCsv) ELSE {}
           pmids == (((selfPmids \ uni) \ nfp) \ nfd) \ keys
       IN  /\ todo' = pmids
           /\ total' = Cardinality(pmids)
           /\ runStart' = [pmids |-> pmids, dois |-> doisCsv, unicode |-> unicodeCsv,
                           nfPmids |-> nfPmidsCsv, nfDois |-> nfDoisCsv]
           /\ pc' = IF pmids = {} THEN "idle" ELSE "esummary"
    /\ counter' = 0
    /\ cur' = None
    /\ summaryHandle' = Unbound
    /\ pmid_doi' = {}
    /\ unicodeErrorpmids' = {}
    /\ notFoundpmids' = {}
    /\ notFounddoisT' = {}
    /\ UNCHANGED <<pmidsIn, entry, selfPmids, files, row, unwritten, lastReq>>
    /\ UNCHANGED <<oaivars, rvars, fvars, pvars, dvars>>

\* what the registries say of a source identifier when a request for it is sent
isDonePmid(p) == p \in csvTodictKeys(doisCsv)
isNotFoundPmid(p) == p \in Cells(nfPmidsCsv) \cup Cells(nfDoisCsv)

\* lines 408-417: next identifier, Entrez.esummary; on URLError sleep 60 s and go on
Esummary ==
    /\ pc = "esummary"
    /\ \E pmid \in todo :
        /\ todo' = todo \ {pmid}
        /\ cur' = pmid
        /\ lastReq' = [kind |-> "esummary", id |-> pmid, wasDone |-> isDonePmid(pmid),
                       wasNotFound |-> isNotFoundPmid(pmid), requested |-> pmid \in pmidsIn,
                       result |-> None]
        /\ \E urlError \in BOOLEAN :
             summaryHandle' = IF urlError THEN summaryHandle
                              ELSE [state |-> "open", id |-> pmid]
    /\ counter' = counter + 1
    /\ pc' = "read"
    /\ UNCHANGED <<runStart, pmidsIn, entry, selfPmids, calls, files, total, accs, row, unwritten>>
    /\ UNCHANGED <<oaivars, rvars, fvars, pvars, dvars>>

\* mutant of flushDue: the periodic flush is lost, only the end of the batch flushes
flushDueEndOnly(c, n) == c = n

\* line 435
flushDue(c, n) == c % FlushEvery = 0 \/ c = n

afterRead == IF flushDue(counter, total) THEN "flushDois"
             ELSE IF todo = {} THEN "idle" ELSE "esummary"

\* lines 418-433: Entrez.read of the handle and the outcome of the identifier.
\* A handle that was never bound (UnboundLocalError) or that was already read
\* (no XML left to parse: a ValueError of the parser) ends the run.
EntrezRead ==
    /\ pc = "read"
    /\ IF summaryHandle # [state |-> "open", id |-> cur]
       THEN /\ pc' = "dead"
            /\ selfPmids' = {}
            /\ clearLocals
            /\ runStart' = NoRun
       ELSE /\ \E out \in ReadOutcomes :
                LET doi == IF out.kind = "record"
                           THEN pmidEntrezSummaryRecordTodoi(out.rec) ELSE NoDoi
                IN  /\ pmid_doi' = IF out.kind = "record" /\ doi # NoDoi
                                   THEN pmid_doi \cup { <<cur, Lower(extractDOI(doi))>> }
                                   ELSE pmid_doi
                    /\ notFounddoisT' = IF out.kind = "record" /\ doi = NoDoi
                                        THEN notFounddoisT \cup {cur} ELSE notFounddoisT
                    /\ unicodeErrorpmids' = IF out.kind = "unicode"
                                            THEN unicodeErrorpmids \cup {cur}
                                            ELSE unicodeErrorpmids
                    /\ notFoundpmids' = IF out.kind = "norecord"
                                        THEN notFoundpmids \cup {cur} ELSE notFoundpmids
                    /\ unwritten' =
                         LET o == CASE out.kind = "unicode" -> [file |-> "unicode", row |-> <<cur>>]
                                    [] out.kind = "norecord" -> [file |-> "nfPmids", row |-> <<cur>>]
                                    [] doi = NoDoi -> [file |-> "nfDois", row |-> <<cur>>]
                                    [] OTHER -> [file |-> "dois",
                                                 row |-> <<cur, Lower(extractDOI(doi))>>]
                         IN  notIn(notIn(notIn(notIn(unwritten \cup {o},
                                 "unicode", unicodeCsv), "nfPmids", nfPmidsCsv),
                                 "nfDois", nfDoisCsv), "dois", doisCsv)
            /\ summaryHandle' = [state |-> "read", id |-> cur]
            /\ pc' = afterRead
            /\ UNCHANGED <<runStart, selfPmids, todo, total, counter, cur, row>>
    /\ UNCHANGED <<pmidsIn, entry, calls, files, lastReq>>
    /\ UNCHANGED <<oaivars, rvars, fvars, pvars, dvars>>

\* line 436
FlushDois ==
    /\ pc = "flushDois"
    /\ doisCsv' = dictTocsv(pmid_doi, doisCsv, <<PmidHeader, DoiHeader>>)
    /\ pc' = "flushUnicode"
    /\ unwritten' = notIn(unwritten, "dois", doisCsv')
    /\ UNCHANGED <<runStart, pmidsIn, entry, selfPmids, calls, unicodeCsv, nfPmidsCsv, nfDoisCsv, pmcidsCsv,
                   todo, total, counter, cur, summaryHandle, accs, row, lastReq>>
    /\ UNCHANGED <<oaivars, rvars, fvars, pvars, dvars>>

\* line 437
FlushUnicode ==
    /\ pc = "flushUnicode"
    /\ unicodeCsv' = listTocsvRows(unicodeErrorpmids, unicodeCsv)
    /\ pc' = "flushNfPmids"
    /\ unwritten' = notIn(unwritten, "unicode", unicodeCsv')
    /\ UNCHANGED <<runStart, pmidsIn, entry, selfPmids, calls, doisCsv, nfPmidsCsv, nfDoisCsv, pmcidsCsv,
                   todo, total, counter, cur, summaryHandle, accs, row, lastReq>>
    /\ UNCHANGED <<oaivars, rvars, fvars, pvars, dvars>>

\* line 438
FlushNfPmids ==
    /\ pc = "flushNfPmids"
    /\ nfPmidsCsv' = listTocsvRows(notFoundpmids, nfPmidsCsv)
    /\ pc' = "flushNfDois"
    /\ unwritten' = notIn(unwritten, "nfPmids", nfPmidsCsv')
    /\ UNCHANGED <<runStart, pmidsIn, entry, selfPmids, calls, doisCsv, unicodeCsv, nfDoisCsv, pmcidsCsv,
                   todo, total, counter, cur, summaryHandle, accs, row, lastReq>>
    /\ UNCHANGED <<oaivars, rvars, fvars, pvars, dvars>>

\* mutant of emptied: the accumulator keeps what was flushed
emptiedNot(acc) == acc

\* lines 440-443: the accumulator after the flush
emptied(acc) == {}

\* lines 439-445: the last write, the cooldown and the reset of the accumulators
FlushNfDois ==
    /\ pc = "flushNfDois"
    /\ nfDoisCsv' = listTocsvRows(notFounddoisT, nfDoisCsv)
    /\ pmid_doi' = emptied(pmid_doi)
    /\ unicodeErrorpmids' = emptied(unicodeErrorpmids)
    /\ notFoundpmids' = emptied(notFoundpmids)
    /\ notFounddoisT' = emptied(notFounddoisT)
    /\ pc' = IF todo = {} THEN "idle" ELSE "esummary"
    /\ unwritten' = notIn(unwritten, "nfDois", nfDoisCsv')
    /\ UNCHANGED <<runStart, pmidsIn, entry, selfPmids, calls, doisCsv, unicodeCsv, nfPmidsCsv, pmcidsCsv,
                   todo, total, counter, cur, summaryHandle, row, lastReq>>
    /\ UNCHANGED <<oaivars, rvars, fvars, pvars, dvars>>

\* lines 259-267: the PMCID recorded for a result of the link-graph service
pmcidOf(linkSetDb) ==
    IF Len(linkSetDb) = 1 THEN linkSetDb[1][1]
    ELSE IF Len(linkSetDb) = 0 THEN <<"NoPMCID">>
    ELSE <<linkSetDb[1][1][1]>> \o <<"MoreThanPMCID">>

\* where the process goes when pmidTopmcid returns: grabViaPMCOAI goes on at line 235
afterPmidTopmcid == IF entry = "grabViaPMCOAI" THEN "readPmcids" ELSE "idle"

\* pmidTopmcid, lines 244-254: pmids is the caller's collection itself
pmidTopmcidStart ==
    /\ pc = "idle"
    /\ entry \in {"pmidTopmcid", "grabViaPMCOAI"}
    /\ calls < MaxCalls
    /\ calls' = calls + 1
    /\ pc' = IF selfPmids = {} THEN afterPmidTopmcid ELSE "elink"
    /\ UNCHANGED <<runStart, pmidsIn, entry, selfPmids, files, todo, total, counter, cur, summaryHandle,
                   accs, row, unwritten, lastReq>>
    /\ UNCHANGED <<oaivars, rvars, fvars, pvars, dvars>>

\* lines 255-269: the request for the next identifier and the row built from it
Elink ==
    /\ pc = "elink"
    /\ \E pmid \in selfPmids, result \in LinkSetDbs :
        /\ cur' = pmid
        /\ row' = <<pmid, pmcidOf(result)>>
        /\ unwritten' = notIn(unwritten \cup {[file |-> "pmcids", row |-> row']},
                              "pmcids", pmcidsCsv)
        /\ lastReq' = [kind |-> "elink", id |-> pmid,
                       wasDone |-> pmid \in csvTodictKeys(pmcidsCsv),
                       wasNotFound |-> FALSE, requested |-> pmid \in pmidsIn,
                       result |-> result]
    /\ pc' = "writePmcid"
    /\ UNCHANGED <<runStart, pmidsIn, entry, selfPmids, calls, files, todo, total, counter, summaryHandle,
                   accs>>
    /\ UNCHANGED <<oaivars, rvars, fvars, pvars, dvars>>

\* lines 270-272: the row is appended and the identifier leaves the caller's collection
WritePmcid ==
    /\ pc = "writePmcid"
    /\ pmcidsCsv' = writecsvRow(pmcidsCsv, row, <<PmidHeader, PmcidHeader>>)
    /\ selfPmids' = selfPmids \ {cur}
    /\ row' = None
    /\ unwritten' = notIn(unwritten, "pmcids", pmcidsCsv')
    /\ pc' = IF selfPmids' = {} THEN afterPmidTopmcid ELSE "elink"
    /\ UNCHANGED <<runStart, pmidsIn, entry, calls, doisCsv, unicodeCsv, nfPmidsCsv, nfDoisCsv, todo, total,
                   counter, cur, summaryHandle, accs, lastReq>>
    /\ UNCHANGED <<oaivars, rvars, fvars, pvars, dvars>>

\* csvTodict (lines 719-726): the set of second cells filed under a first cell
csvTodictValues(f, k) == { r[2] : r \in { q \in BagToSet(f.rows) : q[1] = k } }

DigitChars == <<"0", "1", "2", "3", "4", "5", "6", "7", "8", "9">>

isdigit(c) == \E i \in 1..Len(DigitChars) : DigitChars[i] = c

digitValue(c) == (CHOOSE i \in 1..Len(DigitChars) : DigitChars[i] = c) - 1

RECURSIVE int(_)
int(ds) == IF Len(ds) = 1 THEN digitValue(ds[1])
           ELSE 10 * int(SubSeq(ds, 1, Len(ds) - 1)) + digitValue(ds[Len(ds)])

\* line 330: the digits of the identifier, in order
digitsOf(pmcid) == SelectSeq(pmcid, isdigit)

\* what the fetch of one record can give: no answer, a record with or without body text
OaiOutcomes == {"urlerror", "body", "nobody"}

\* grabViaPMCOAI, lines 235-238: every row of pmcids.csv is read, one PMCID kept per PMID
ReadPmcids ==
    /\ pc = "readPmcids"
    /\ IF ~pmcidsCsv.exists
       THEN /\ pc' = "dead"
            /\ selfPmids' = {}
            /\ clearLocals
            /\ oaiTodo' = {}
       ELSE /\ \E pop \in [csvTodictKeys(pmcidsCsv) -> { r[2] : r \in BagToSet(pmcidsCsv.rows) }] :
                /\ \A k \in DOMAIN pop : pop[k] \in csvTodictValues(pmcidsCsv, k)
                /\ oaiTodo' = ({ pop[k] : k \in DOMAIN pop } \ {PmcidHeader}) \ {<<"NoPMCID">>}
            /\ pc' = IF oaiTodo' = {} THEN "writeNoTxt" ELSE "pmcidToXml"
            /\ UNCHANGED <<selfPmids, todo, total, counter, cur, summaryHandle, accs, row,
                           unwritten>>
    /\ noTxt' = {}
    /\ UNCHANGED <<runStart, pmidsIn, entry, calls, files, oaiFiles, lastReq>>
    /\ UNCHANGED <<rvars, fvars, pvars, dvars>>

\* getFullText, lines 326-338, with pmcidToXml (273-282) and xmlToTxt (285-323)
PmcidToXml ==
    /\ pc = "pmcidToXml"
    /\ \E pmcid \in oaiTodo, out \in OaiOutcomes :
        /\ lastReq' = [kind |-> "oai", id |-> pmcid,
                       wasDone |-> digitsOf(pmcid) # <<>> /\ int(digitsOf(pmcid)) \in xmlFiles,
                       wasNotFound |-> FALSE,
                       requested |-> \E k \in pmidsIn : pmcid \in csvTodictValues(pmcidsCsv, k),
                       result |-> None]
        /\ IF digitsOf(pmcid) = <<>> \/ out = "urlerror"
           THEN /\ pc' = "dead"
                /\ selfPmids' = {}
                /\ clearLocals
                /\ oaiTodo' = {}
                /\ noTxt' = {}
                /\ UNCHANGED xmlFiles
           ELSE LET purePmcid == int(digitsOf(pmcid))
                IN  /\ xmlFiles' = xmlFiles \cup {purePmcid}
                    /\ noTxt' = IF out = "nobody" THEN noTxt \cup {purePmcid} ELSE noTxt
                    /\ oaiTodo' = oaiTodo \ {pmcid}
                    /\ pc' = IF oaiTodo' = {} THEN "writeNoTxt" ELSE "pmcidToXml"
                    /\ UNCHANGED <<selfPmids, todo, total, counter, cur, summaryHandle, accs,
                                   row, unwritten>>
    /\ UNCHANGED <<runStart, pmidsIn, entry, calls, files, noTxtCsv>>
    /\ UNCHANGED <<rvars, fvars, pvars, dvars>>

\* line 240: the identifiers without body text are appended to noTxt.csv
WriteNoTxt ==
    /\ pc = "writeNoTxt"
    /\ noTxtCsv' = listTocsvRows(noTxt, noTxtCsv)
    /\ noTxt' = {}
    /\ pc' = "idle"
    /\ UNCHANGED <<runStart, pmidsIn, entry, selfPmids, calls, files, todo, total, counter, cur,
                   summaryHandle, accs, row, unwritten, oaiTodo, xmlFiles, lastReq>>
    /\ UNCHANGED <<rvars, fvars, pvars, dvars>>

NextTranslate ==
    \/ Construct
    \/ Kill
    \/ pmidTodoiStart
    \/ Esummary
    \/ EntrezRead
    \/ FlushDois
    \/ FlushUnicode
    \/ FlushNfPmids
    \/ FlushNfDois
    \/ pmidTopmcidStart
    \/ Elink
    \/ WritePmcid

SpecTranslate == InitTranslate /\ [][NextTranslate]_vars

\* grabViaPMCOAI (lines 232-240) on an input list, in a directory that is fresh or that
\* an earlier run on another input has used
OaiPmids == { <<"1">>, <<"2">> }

InitPMCOAI ==
    /\ pmidsIn \in SUBSET OaiPmids
    /\ entry = "grabViaPMCOAI"
    /\ selfPmids = pmidsIn
    /\ pc = "idle"
    /\ calls = 0
    /\ doisCsv = NoFile
    /\ unicodeCsv = NoFile
    /\ nfPmidsCsv = NoFile
    /\ nfDoisCsv = NoFile
    /\ pmcidsCsv \in {NoFile, EarlierPmcidsCsv}
    /\ oaiTodo = {}
    /\ noTxt = {}
    /\ xmlFiles = {}
    /\ noTxtCsv = NoFile
    /\ todo = {}
    /\ total = 0
    /\ counter = 0
    /\ cur = None
    /\ summaryHandle = Unbound
    /\ pmid_doi = {}
    /\ unicodeErrorpmids = {}
    /\ notFoundpmids = {}
    /\ notFounddoisT = {}
    /\ row = None
    /\ unwritten = {}
    /\ lastReq = NoReq
    /\ runStart = NoRun
    /\ resolveIdle
    /\ fetchIdle
    /\ functionsIdle
    /\ downloadIdle

NextPMCOAI ==
    \/ Construct
    \/ Kill
    \/ pmidTopmcidStart
    \/ Elink
    \/ WritePmcid
    \/ ReadPmcids
    \/ PmcidToXml
    \/ WriteNoTxt

SpecPMCOAI == InitPMCOAI /\ [][NextPMCOAI]_vars

\* ------------------------------------------------------------------ grabViaCrossref, lines 68-132
clearResolveLocals ==
    /\ dois' = {}
    /\ articles' = {}
    /\ notFounddois' = {}
    /\ firstTime' = TRUE
    /\ lenOfIn' = 0
    /\ rtodo' = {}
    /\ rounds' = 0
    /\ prevRemaining' = NoRound

rdisk == <<doisCsvIn, crAnswer, crBound, notFoundCsv, articlesPkl>>
rhist == <<raised, killed, completions, firstResult, lastWorks>>

\* lines 91-94: the normal form under which collected and not-found DOIs are compared
normalised(S) == { Lower(extractDOI(i)) : i \in S }

\* lines 68-87: a process reaches the metadata stage and loads what earlier runs left
ResolveStart ==
    /\ rpc = "start"
    /\ runs < MaxRuns
    /\ runs' = runs + 1
    /\ dois' = doisCsvIn
    /\ articles' = IF articlesPkl.exists THEN articlesPkl.dois ELSE {}
    /\ notFounddois' = IF notFoundCsv.exists THEN csvTolistSet(notFoundCsv) ELSE {}
    /\ firstTime' = TRUE
    /\ lenOfIn' = 0
    /\ rtodo' = {}
    /\ rounds' = 0
    /\ prevRemaining' = NoRound
    /\ rpc' = "while"
    /\ UNCHANGED <<rdisk, rhist>>
    /\ UNCHANGED <<tvars, fvars, pvars, dvars>>

\* lines 98-103: whether the loop stops on the size of the remaining set
stalled(first, n, old) == ~first /\ n = old

\* lines 88-103: the head of a round
WhileTop ==
    /\ rpc = "while"
    /\ IF dois = {}
       THEN /\ rpc' = "writeNotFound"
            /\ UNCHANGED <<dois, notFounddois, firstTime, lenOfIn, rtodo, rounds,
                           prevRemaining>>
       ELSE LET collecteddois == normalised(articles)
                nf == normalised(notFounddois)
                remaining == ({ Lower(i) : i \in dois } \ nf) \ collecteddois
            IN  /\ notFounddois' = nf
                /\ dois' = remaining
                /\ firstTime' = FALSE
                /\ lenOfIn' = IF firstTime THEN Cardinality(remaining) ELSE lenOfIn
                /\ prevRemaining' = IF firstTime THEN NoRound
                                    ELSE [known |-> TRUE, remaining |-> dois]
                /\ IF stalled(firstTime, Cardinality(remaining), lenOfIn)
                   THEN /\ rpc' = "writeNotFound"
                        /\ UNCHANGED <<rtodo, rounds>>
                   ELSE /\ rounds < MaxRounds
                        /\ rounds' = rounds + 1
                        /\ rtodo' = remaining
                        /\ rpc' = IF remaining = {} THEN "while" ELSE "for"
    /\ UNCHANGED <<articles, runs, rdisk, rhist>>
    /\ UNCHANGED <<tvars, fvars, pvars, dvars>>

\* what a call of cr.works can do. The constructor binds cr as a local of
\* __init__ (line 53), so line 108 looks the name up in the module's globals:
\* unless the importing script has bound it there, the call raises NameError,
\* which the except clause does not name. With cr bound, the service answers,
\* or raises one of the named exceptions without 'Not Found' in its text
\* ("transient"), or raises another exception ("fatal").
worksErrors == IF crBound THEN {"none", "transient", "fatal"} ELSE {"fatal"}

\* lines 106-114: one DOI of the round is sent to the metadata service
Works ==
    /\ rpc = "for"
    /\ \E doi \in rtodo, err \in worksErrors :
        /\ lastWorks' = [asked |-> TRUE, id |-> doi,
                         wasNotFound |-> doi \in Cells(notFoundCsv)]
        /\ IF err = "none"
           THEN /\ articles' = CASE crAnswer[doi] = "record" -> articles \cup {doi}
                                 [] crAnswer[doi] = "recordUpper" -> articles \cup {Upper(doi)}
                                 [] OTHER -> articles
                /\ notFounddois' = IF crAnswer[doi] = "notfound"
                                   THEN notFounddois \cup {doi} ELSE notFounddois
                /\ rtodo' = rtodo \ {doi}
                /\ rpc' = IF rtodo' = {} THEN "while" ELSE "for"
                /\ UNCHANGED <<dois, firstTime, lenOfIn, rounds, prevRemaining, raised>>
           ELSE \* line 114: raise e; an exception outside the except clause propagates too
                /\ raised' = err
                /\ rpc' = "start"
                /\ clearResolveLocals
    /\ UNCHANGED <<runs, rdisk, killed, completions, firstResult>>
    /\ UNCHANGED <<tvars, fvars, pvars, dvars>>

\* lines 115-116
WriteNotFound ==
    /\ rpc = "writeNotFound"
    /\ notFounddois' = normalised(notFounddois)
    /\ notFoundCsv' = listTocsvRows(notFounddois', notFoundCsv)
    /\ rpc' = "pickle"
    /\ UNCHANGED <<doisCsvIn, crAnswer, crBound, articlesPkl, dois, articles, firstTime, lenOfIn,
                   rtodo, rounds, runs, prevRemaining, rhist>>
    /\ UNCHANGED <<tvars, fvars, pvars, dvars>>

\* lines 118-132: duplicates by 'DOI' are dropped and the records are pickled
Pickle ==
    /\ rpc = "pickle"
    /\ articlesPkl' = [exists |-> TRUE, dois |-> articles]
    /\ rpc' = "resolved"
    /\ completions' = completions + 1
    /\ firstResult' = IF firstResult.known THEN firstResult
                      ELSE registries(notFoundCsv, articlesPkl')
    /\ UNCHANGED <<doisCsvIn, crAnswer, crBound, notFoundCsv, dois, articles, notFounddois, firstTime,
                   lenOfIn, rtodo, rounds, runs, prevRemaining, raised, killed, lastWorks>>
    /\ UNCHANGED <<tvars, fvars, pvars, dvars>>

\* the run is over; the script is run again on the same input
RunAgain ==
    /\ rpc = "resolved"
    /\ rpc' = "start"
    /\ clearResolveLocals
    /\ UNCHANGED <<runs, rdisk, rhist>>
    /\ UNCHANGED <<tvars, fvars, pvars, dvars>>

\* the process is killed in the metadata stage and the script is started again
KillResolve ==
    /\ rpc \in {"while", "for", "writeNotFound", "pickle"}
    /\ rpc' = "start"
    /\ killed' = TRUE
    /\ clearResolveLocals
    /\ UNCHANGED <<runs, rdisk, raised, completions, firstResult, lastWorks>>
    /\ UNCHANGED <<tvars, fvars, pvars, dvars>>

InitResolve ==
    /\ doisCsvIn \in SUBSET DoiValues
    /\ crAnswer \in [DoiValues -> CrAnswers]
    /\ crBound \in BOOLEAN
    /\ notFoundCsv = NoFile
    /\ articlesPkl = NoPickle
    /\ rpc = "start"
    /\ dois = {}
    /\ articles = {}
    /\ notFounddois = {}
    /\ firstTime = TRUE
    /\ lenOfIn = 0
    /\ rtodo = {}
    /\ rounds = 0
    /\ runs = 0
    /\ prevRemaining = NoRound
    /\ raised = "no"
    /\ killed = FALSE
    /\ completions = 0
    /\ firstResult = NoResult
    /\ lastWorks = NoWorks
    /\ translateIdle
    /\ fetchIdle
    /\ functionsIdle
    /\ downloadIdle

NextResolve ==
    \/ ResolveStart
    \/ WhileTop
    \/ Works
    \/ WriteNotFound
    \/ Pickle
    \/ RunAgain
    \/ KillResolve

SpecResolve == InitResolve /\ [][NextResolve]_vars

\* ------------------------------------------------------------------ download
\* mutant of transportFor: the probe is not looked at
transportForAlwaysRequests(probe) == "requests"

\* lines 593-604: the transport of the full request, decided by the probe
transportFor(probe) == IF probe = "ok" THEN "requests" ELSE "urllib"

\* mutant of overwrites: the offset is added instead of subtracted
overwritesOffsetAdded(contentSize, fileSize) == contentSize + DedupOffset > fileSize

\* lines 634 and 681: whether the fetched content replaces the file
overwrites(contentSize, fileSize) == contentSize - DedupOffset > fileSize

\* lines 626-639 and 673-686: the file at path after a fetch of body
written(old, body) ==
    LET contentSize == body.len + SizeofBytes
        fileSize == IF old.exists THEN old.len ELSE 0
    IN  IF overwrites(contentSize, fileSize)
        THEN [exists |-> TRUE, len |-> body.len, tag |-> body.tag]
        ELSE old

InitFetch ==
    /\ fetchIdle
    /\ translateIdle
    /\ resolveIdle
    /\ functionsIdle
    /\ downloadIdle

\* line 585: the reset header loses its last three characters before int(),
\* which raises ValueError when nothing is left of it
resetRaises(remaining, reset) ==
    remaining.present /\ reset.present /\ reset.value < 1000

\* mutant of rateLimitSleep: the sleep stops at the reset time, without the second
rateLimitSleepNoMargin(remaining, reset, now) ==
    IF ~remaining.present \/ ~reset.present \/ remaining.value >= 2 THEN 0
    ELSE IF (reset.value \div 1000) * 1000 >= now
         THEN (reset.value \div 1000) * 1000 - now ELSE 0

\* lines 583-592: the sleep, in milliseconds, that the rate-limit headers of the
\* probe response ask for. A missing header is a KeyError and no sleep.
rateLimitSleep(remaining, reset, now) ==
    IF ~remaining.present \/ ~reset.present THEN 0
    ELSE LET resetTime == (reset.value \div 1000) * 1000
             sleepingTime == IF resetTime >= now THEN resetTime - now ELSE now - resetTime
         IN  IF remaining.value < 2 THEN sleepingTime + 1000 ELSE 0

\* mutant of recognised: downloadViaRequests treats TooManyRedirects as download does
recognisedWithRedirects(transport, kind) == kind \in {"http", "connection", "redirects"}

\* lines 646 and 694: the exceptions the except clause of the transport names
recognised(transport, kind) ==
    IF transport = "requests" THEN kind \in {"http", "connection"}
    ELSE kind \in {"http", "connection", "redirects"}

\* mutant of recordBad: the recognised error is swallowed without a row
recordNothing(f, doi, url, text) == f

\* lines 651 and 699
recordBad(f, doi, url, text) == writecsvRow(f, <<doi, url, text>>, DoiUrlErrorHeader)

\* download(doi, url, requestHeaders) (lines 579-605) with downloadViaRequests
\* (608-654) or downloadViaUrlLib (657-702), for a probe and an outcome of the
\* full request
download(doi, url, probe, out) ==
    LET transport == transportFor(probe.status)
        sleep == rateLimitSleep(probe.remaining, probe.reset, probe.now)
        \* downloadViaUrlLib passes no contentDisposition (lines 669-671)
        cd == IF transport = "requests" THEN out.contentDisposition ELSE None
        ext == decideExtension(out.contentType, None, cd, url)
        path == createFile(doi, ext)
        call == [outcome |-> "none", doi |-> doi, url |-> url, probe |-> probe.status,
                 transport |-> transport, error |-> "none", logged |-> FALSE,
                 len |-> out.body.len, ext |-> ext, path |-> path, before |-> artifacts,
                 downloadableBefore |-> downloadableCsv, badBefore |-> badUrlsCsv,
                 remaining |-> probe.remaining, reset |-> probe.reset,
                 now |-> probe.now, start |-> 0]
    IN  IF probe.status = "fatal" \/ resetRaises(probe.remaining, probe.reset)
        THEN \* the exception leaves download: nothing is printed, no transport runs
             /\ lastFetch' = [call EXCEPT !.outcome = "raised", !.transport = "none",
                                          !.error = "probe"]
             /\ UNCHANGED <<artifacts, downloadableCsv, badUrlsCsv>>
        ELSE IF out.kind = "response"
        THEN /\ lastFetch' = [call EXCEPT !.outcome = "ok", !.start = probe.now + sleep]
             /\ artifacts' = [artifacts EXCEPT ![path] = written(@, out.body)]
             /\ downloadableCsv' = writecsvRow(downloadableCsv, <<doi, url, ext>>,
                                               DoiUrlExtHeader)
             /\ UNCHANGED badUrlsCsv
        ELSE IF recognised(transport, out.kind)
        THEN /\ lastFetch' = [call EXCEPT !.outcome = "bad", !.error = out.kind,
                                          !.start = probe.now + sleep]
             /\ badUrlsCsv' = recordBad(badUrlsCsv, doi, url, ErrorText)
             /\ UNCHANGED <<artifacts, downloadableCsv>>
        ELSE \* lines 652-654 and 700-702: print(doi, url) and raise
             /\ lastFetch' = [call EXCEPT !.outcome = "raised", !.error = out.kind,
                                          !.logged = TRUE, !.start = probe.now + sleep]
             /\ UNCHANGED <<artifacts, downloadableCsv, badUrlsCsv>>

\* one call of download on a server that sends no rate-limit header
Download ==
    /\ fetches < MaxFetches
    /\ fetches' = fetches + 1
    /\ \E doi \in FetchDois, url \in FetchUrls, probe \in PlainProbes,
          out \in FetchOutcomes : download(doi, url, probe, out)
    /\ UNCHANGED <<tvars, rvars, pvars, dvars>>

NextFetch == Download

SpecFetch == InitFetch /\ [][NextFetch]_vars

\* one call of download on a rate-limited server, for one article and three
\* outcomes of the full request
RateLimitedOutcomes ==
    { o \in FetchOutcomes :
        \/ o.kind \in {"http", "fatal"}
        \/ /\ o.kind = "response"
           /\ o.contentType = None
           /\ o.contentDisposition = None
           /\ o.body = [len |-> 5, tag |-> "p"] }

DownloadRateLimited ==
    /\ fetches < MaxFetches
    /\ fetches' = fetches + 1
    /\ \E probe \in RateLimitedProbes, out \in RateLimitedOutcomes :
          download(<<"a">>, <<"h", "/", "y">>, probe, out)
    /\ UNCHANGED <<tvars, rvars, pvars, dvars>>

NextRateLimit == DownloadRateLimited

SpecRateLimit == InitFetch /\ [][NextRateLimit]_vars

\* ------------------------------------------------------------------ URL fixups
AnyChar == "any character"

\* whether the regular expression pat, a sequence of characters in which AnyChar
\* stands for '.', matches s from position i on
matchesAt(s, i, pat) ==
    /\ i + Len(pat) - 1 <= Len(s)
    /\ \A k \in 1..Len(pat) : pat[k] = AnyChar \/ pat[k] = s[i + k - 1]

IndexError == <<"IndexError">>

\* re.findall(pat + '(.+)', s)[-1]: the one match starts at the leftmost place
\* where pat matches with a character after it and captures the rest of s;
\* without a match the list is empty and [-1] raises IndexError
restAfter(s, pat) ==
    LET at == { i \in 1..Len(s) : matchesAt(s, i, pat) /\ i + Len(pat) <= Len(s) }
        first == CHOOSE i \in at : \A j \in at : i <= j
    IN  IF at = {} THEN IndexError ELSE SubSeq(s, first + Len(pat), Len(s))

CambridgePattern == <<"1", "0", AnyChar, "1", "0", "1", "7", "/", "s">>
CambridgeViewer == <<"h", "t", "t", "p", "s", ":", "/", "/", "w", "w", "w", ".", "c", "a", "m", "b", "r", "i", "d", "g", "e", ".", "o", "r", "g", "/", "c", "o", "r", "e", "/", "s", "e", "r", "v", "i", "c", "e", "s", "/", "a", "o", "p", "-", "c", "a", "m", "b", "r", "i", "d", "g", "e", "-", "c", "o", "r", "e", "/", "c", "o", "n", "t", "e", "n", "t", "/", "v", "i", "e", "w", "/", "S">>

\* lines 573-576
getCambridgeURL(doi) ==
    IF restAfter(doi, CambridgePattern) = IndexError THEN IndexError
    ELSE CambridgeViewer \o restAfter(doi, CambridgePattern)

\* mutant of replaceSlash: the slashes are left as they are
replaceSlashKept(t) == t

RECURSIVE replaceSlash(_)
\* doi.replace('/', '%2F')
replaceSlash(t) ==
    IF t = <<>> THEN <<>>
    ELSE (IF Head(t) = "/" THEN <<"%", "2", "F">> ELSE <<Head(t)>>) \o replaceSlash(Tail(t))

SpringerPattern == <<"p", "d", "f", "/">>
SpringerPdf == <<"h", "t", "t", "p", "s", ":", "/", "/", "l", "i", "n", "k", ".", "s", "p", "r", "i", "n", "g", "e", "r", ".", "c", "o", "m", "/", "c", "o", "n", "t", "e", "n", "t", "/", "p", "d", "f", "/">>

\* lines 566-570
fixSpringerLinkURL(url) ==
    IF restAfter(url, SpringerPattern) = IndexError THEN IndexError
    ELSE SpringerPdf \o replaceSlash(restAfter(url, SpringerPattern))

\* ------------------------------------------------------------------ calls of the pure functions
ClassifierContentTypes == { None, <<>>, <<"a", "p", "p", "l", "i", "c", "a", "t", "i", "o", "n", "/", "p", "d", "f">>, <<"t", "e", "x", "t", "/", "p", "l", "a", "i", "n">>, <<"t", "e", "x", "t", "/", "h", "t", "m", "l", ";", " ", "c", "h", "a", "r", "s", "e", "t", "=", "u", "t", "f", "-", "8">> }
ClassifierCrContentTypes == { None, Unspecified, <<"t", "e", "x", "t", "/", "p", "l", "a", "i", "n">>, <<"a", "p", "p", "l", "i", "c", "a", "t", "i", "o", "n", "/", "m", "s", "w", "o", "r", "d">>, <<"a", "p", "p", "l", "i", "c", "a", "t", "i", "o", "n", "/", "o", "c", "t", "e", "t", "-", "s", "t", "r", "e", "a", "m">> }
ClassifierDispositions == { None, <<"i", "n", "l", "i", "n", "e">>, <<"a", "t", "t", "a", "c", "h", "m", "e", "n", "t", ";", " ", "f", "i", "l", "e", "n", "a", "m", "e", "=", "\"", "x", ".", "d", "o", "c", "\"">>, <<"a", "t", "t", "a", "c", "h", "m", "e", "n", "t", ";", " ", "f", "i", "l", "e", "n", "a", "m", "e", "=", "\"", "x", ".", "h", "t", "m", "\"">> }
ClassifierUrls == { None, <<"h", "t", "t", "p", "s", ":", "/", "/", "a", "p", "i", ".", "e", "l", "s", "e", "v", "i", "e", "r", ".", "c", "o", "m", "/", "x", ".", "h", "t", "m", "l">>, <<"h", "t", "t", "p", "s", ":", "/", "/", "h", ".", "o", "r", "g", "/", "f", "i", "l", "e", ".", "h", "t", "m">>, <<"h", "t", "t", "p", "s", ":", "/", "/", "h", ".", "o", "r", "g", "/", "x", ".", "p", "d", "f">>, <<"h", "t", "t", "p", "s", ":", "/", "/", "h", ".", "o", "r", "g", "/", "y">> }

ClassifierInputs ==
    { [fn |-> "decideExtension", contentType |-> ct, crContentType |-> cr,
       contentDisposition |-> cd, url |-> u] :
        ct \in ClassifierContentTypes, cr \in ClassifierCrContentTypes,
        cd \in ClassifierDispositions, u \in ClassifierUrls }

\* Cambridge DOIs: a prefix, '10.1017/s' and the rest X of the identifier
CambridgePrefixes == { <<>>, <<"h", "t", "t", "p", "s", ":", "/", "/", "d", "o", "i", ".", "o", "r", "g", "/">> }
CambridgeRests == { <<>>, <<"A", "B", "C", "D", "E", "F">>, <<"0", "0", "2", "2", "1", "1", "2", "0", "9", "9", "0", "0", "7", "5", "4", "5">>, <<"a", "/", "b">> }
CambridgeInputs ==
    { [fn |-> "getCambridgeURL", arg |-> pre \o <<"1", "0", ".", "1", "0", "1", "7", "/", "s">> \o x, rest |-> x] :
        pre \in CambridgePrefixes, x \in CambridgeRests }

\* springerlink URLs: the old host and path up to 'pdf/', then the DOI
SpringerHeads == { <<"h", "t", "t", "p", ":", "/", "/", "w", "w", "w", ".", "s", "p", "r", "i", "n", "g", "e", "r", "l", "i", "n", "k", ".", "c", "o", "m", "/", "c", "o", "n", "t", "e", "n", "t", "/", "p", "d", "f", "/">>, <<"h", "t", "t", "p", ":", "/", "/", "s", "p", "r", "i", "n", "g", "e", "r", "l", "i", "n", "k", ".", "c", "o", "m", "/", "i", "n", "d", "e", "x", "/", "p", "d", "f", "/">> }
SpringerDois == { <<>>, <<"1", "0", ".", "1", "0", "0", "7", "/", "B", "F", "1">>, <<"1", "0", ".", "1", "0", "0", "7", "/", "s", "1", "/", "2">>, <<"x">> }
SpringerInputs ==
    { [fn |-> "fixSpringerLinkURL", arg |-> h \o d, rest |-> d] :
        h \in SpringerHeads, d \in SpringerDois }

InitFunctions ==
    /\ fnIn \in ClassifierInputs \cup CambridgeInputs \cup SpringerInputs
    /\ fnOut = None
    /\ fnPc = "call"
    /\ translateIdle
    /\ resolveIdle
    /\ fetchIdle
    /\ downloadIdle

\* decideExtension(d), lines 466-509: the selection by precedence and the result
CallDecideExtension ==
    /\ fnPc = "call"
    /\ fnIn.fn = "decideExtension"
    /\ fnOut' = [selected |-> extByPrecedence(fnIn.contentType, fnIn.crContentType,
                                               fnIn.contentDisposition, fnIn.url),
                  ext |-> decideExtension(fnIn.contentType, fnIn.crContentType,
                                          fnIn.contentDisposition, fnIn.url)]
    /\ fnPc' = "done"
    /\ UNCHANGED <<fnIn, tvars, rvars, fvars, dvars>>

CallGetCambridgeURL ==
    /\ fnPc = "call"
    /\ fnIn.fn = "getCambridgeURL"
    /\ fnOut' = getCambridgeURL(fnIn.arg)
    /\ fnPc' = "done"
    /\ UNCHANGED <<fnIn, tvars, rvars, fvars, dvars>>

CallFixSpringerLinkURL ==
    /\ fnPc = "call"
    /\ fnIn.fn = "fixSpringerLinkURL"
    /\ fnOut' = fixSpringerLinkURL(fnIn.arg)
    /\ fnPc' = "done"
    /\ UNCHANGED <<fnIn, tvars, rvars, fvars, dvars>>

NextFunctions ==
    \/ CallDecideExtension
    \/ CallGetCambridgeURL
    \/ CallFixSpringerLinkURL

SpecFunctions == InitFunctions /\ [][NextFunctions]_vars

\* ------------------------------------------------------------------ grabViaCrossref, lines 152-229
CambridgeMark == <<"1", "0", ".", "1", "0", "1", "7", "/", "s">>
SpringerMark == <<"s", "p", "r", "i", "n", "g", "e", "r", "l", "i", "n", "k">>
Hashes == <<"#", "#", "#">>

\* the articles of the run and the links the metadata service gave for them
PassCambridgeDoi == CambridgeMark \o <<"1">>
PassPlainDoi == <<"a">>
PassPlainUrl == <<"h", "/", "y">>
PassSpringerUrl == <<"h", "/", "s", "p", "r", "i", "n", "g", "e", "r", "l", "i", "n", "k", "/", "p", "d", "f", "/", "x">>
PassBrokenSpringerUrl == <<"h", "/", "s", "p", "r", "i", "n", "g", "e", "r", "l", "i", "n", "k", "/", "x">>

\* a record of the metadata service without the key 'link'
NoLinks == [present |-> FALSE, urls |-> {}]
Links(urls) == [present |-> TRUE, urls |-> urls]

\* the records of the articles: a Cambridge article, if any, without links or with
\* one, and another article without links or with any of three
PassArticles ==
    { c \cup {[doi |-> PassPlainDoi, links |-> l]} :
        c \in { {}, {[doi |-> PassCambridgeDoi, links |-> NoLinks]},
                {[doi |-> PassCambridgeDoi, links |-> Links({PassPlainUrl})]} },
        l \in {NoLinks} \cup
              { Links(u) : u \in SUBSET {PassPlainUrl, PassSpringerUrl, PassBrokenSpringerUrl} } }

\* the URLs download can be called with
PassUrls ==
    { PassPlainUrl, PassSpringerUrl, fixSpringerLinkURL(PassSpringerUrl),
      getCambridgeURL(PassCambridgeDoi) }

PassPaths ==
    { createFile(d, decideExtension(None, None, None, u)) :
        d \in {PassCambridgeDoi, PassPlainDoi}, u \in PassUrls }

\* the registries as earlier runs can have left them: absent, or the header and one row
PassDownloadableCsvs ==
    {NoFile} \cup
    { [exists |-> TRUE, rows |-> SetToBag({DoiUrlExtHeader, <<PassPlainDoi, u, None>>})] :
        u \in PassUrls }

PassBadRows ==
    { <<PassPlainDoi, PassPlainUrl, ErrorText>>, <<PassPlainDoi, PassSpringerUrl, ErrorText>>,
      <<PassPlainDoi, fixSpringerLinkURL(PassSpringerUrl), ErrorText>>,
      <<PassCambridgeDoi, PassPlainUrl, ErrorText>>,
      <<PassCambridgeDoi, getCambridgeURL(PassCambridgeDoi), ErrorText>>,
      <<PassPlainDoi, Hashes, ErrorText>> }

PassBadUrlsCsvs ==
    {NoFile} \cup
    { [exists |-> TRUE, rows |-> SetToBag({DoiUrlErrorHeader, r})] : r \in PassBadRows }

PassProbes == { p \in PlainProbes : p.status \in {"ok", "notOk"} }

\* the stage starts after the metadata stage, with the links of the articles
InitPass ==
    /\ dpc = "links"
    /\ dErr = "none"
    /\ articleLinks \in PassArticles
    /\ doisWithNoLink = {}
    /\ doisWithNoLinkCsv = NoFile
    /\ articlesURLs = {}
    /\ downloadableURLs = {}
    /\ badURLs = {}
    /\ badArticles = EmptyBag
    /\ retryLenOfIn = 1
    /\ retryLenOfOut = 0
    /\ passes = 0
    /\ handed = NoHandOff
    /\ skipped = NoSkip
    /\ passHanded = {}
    /\ artifacts = [q \in PassPaths |-> NoArtifact]
    /\ downloadableCsv \in PassDownloadableCsvs
    /\ badUrlsCsv \in PassBadUrlsCsvs
    /\ fetches = 0
    /\ lastFetch = NoFetch
    /\ translateIdle
    /\ resolveIdle
    /\ functionsIdle

\* pd.read_csv(file)['URL'].dropna(): the second cell of every row under the header
urlColumn(f, headers) == { r[2] : r \in BagToSet(f.rows) \ {headers} }

\* lines 134-150: the links of each record; a record without the key 'link' or with
\* no link goes to dois With No Link.csv and is not an item of the first pass
ExtractLinks ==
    /\ dpc = "links"
    /\ LET linked == { a \in articleLinks : a.links.present /\ a.links.urls # {} }
       IN  /\ articlesURLs' = UNION { { <<a.doi, u>> : u \in a.links.urls } : a \in linked }
           /\ doisWithNoLink' = { a.doi : a \in articleLinks \ linked }
    /\ doisWithNoLinkCsv' = listTocsvRows(doisWithNoLink', doisWithNoLinkCsv)
    /\ articleLinks' = {}
    /\ dpc' = "load"
    /\ UNCHANGED <<dErr, downloadableURLs, badURLs, badArticles, retryLenOfIn, retryLenOfOut,
                   passes, handed, skipped, passHanded>>
    /\ UNCHANGED <<tvars, rvars, fvars, pvars>>

\* lines 153-164: the registries are read once, an absent one counts as empty
LoadRegistries ==
    /\ dpc = "load"
    /\ downloadableURLs' = IF downloadableCsv.exists
                           THEN urlColumn(downloadableCsv, DoiUrlExtHeader) ELSE {}
    /\ badURLs' = IF badUrlsCsv.exists THEN urlColumn(badUrlsCsv, DoiUrlErrorHeader) ELSE {}
    /\ dpc' = "initial"
    /\ UNCHANGED <<dErr, articlesURLs, badArticles, retryLenOfIn, retryLenOfOut, passes,
                   handed, skipped, passHanded>>
    /\ UNCHANGED linkvars
    /\ UNCHANGED <<tvars, rvars, fvars, pvars>>

\* lines 179 and 183: url and url not in downloadableURLs|badURLs
unknownUrl(url, known) == truthy(url) /\ url \notin known

\* mutant of knownUrl: the rewritten URL is not looked up
knownUrlNever(url, known) == FALSE

\* line 187: url and url in downloadableURLs|badURLs
knownUrl(url, known) == truthy(url) /\ url \in known

Raise(e) == [act |-> "raise", url |-> e, rewritten |-> FALSE]
SkipUrl(u, rw) == [act |-> "skip", url |-> u, rewritten |-> rw]
HandUrl(u, rw) == [act |-> "hand", url |-> u, rewritten |-> rw]

\* lines 176-190 and 214-225: what the body of the loop does with an article and a link
\* of it, for the set of URLs it looks the candidate and the rewritten URL up in
decide(doi, url, known) ==
    IF contains(doi, CambridgeMark)
    THEN LET viewer == getCambridgeURL(doi)
         IN  IF viewer = IndexError THEN Raise(IndexError)
             ELSE IF unknownUrl(viewer, known) THEN HandUrl(viewer, TRUE)
             ELSE SkipUrl(viewer, TRUE)
    ELSE IF unknownUrl(url, known)
    THEN IF contains(url, SpringerMark)
         THEN LET fixed == fixSpringerLinkURL(url)
              IN  IF fixed = IndexError THEN Raise(IndexError)
                  ELSE IF knownUrl(fixed, known) THEN SkipUrl(fixed, TRUE)
                  ELSE HandUrl(fixed, TRUE)
         ELSE HandUrl(url, FALSE)
    ELSE SkipUrl(url, FALSE)

\* the effect of one turn of either loop: the call of download, or none
turn(d, doi, stage, known, next) ==
    IF d.act = "raise"
    THEN /\ dpc' = "raised"
         /\ dErr' = "IndexError"
         /\ UNCHANGED <<artifacts, downloadableCsv, badUrlsCsv, lastFetch, handed, skipped,
                        passHanded>>
    ELSE IF d.act = "skip"
    THEN /\ dpc' = next
         /\ skipped' = [url |-> d.url, rewritten |-> d.rewritten, stage |-> stage]
         /\ UNCHANGED <<dErr, artifacts, downloadableCsv, badUrlsCsv, lastFetch, handed,
                        passHanded>>
    ELSE /\ \E probe \in PassProbes, out \in RateLimitedOutcomes :
                download(doi, d.url, probe, out)
         /\ handed' = [url |-> d.url, known |-> d.url \in known, stage |-> stage,
                        again |-> d.url \in passHanded,
                        downloadable |-> d.url \in urlColumn(downloadableCsv, DoiUrlExtHeader)]
         /\ passHanded' = passHanded \cup {d.url}
         /\ dpc' = IF lastFetch'.outcome = "raised" THEN "raised" ELSE next
         /\ dErr' = IF lastFetch'.outcome = "raised" THEN "download" ELSE dErr
         /\ UNCHANGED skipped

\* lines 176-190: one article (Cambridge) or one link of an article (the others)
InitialPass ==
    /\ dpc = "initial"
    /\ \E item \in articlesURLs :
        /\ articlesURLs' = IF contains(item[1], CambridgeMark)
                           THEN { i \in articlesURLs : i[1] # item[1] }
                           ELSE articlesURLs \ {item}
        /\ turn(decide(item[1], item[2], downloadableURLs \cup badURLs), item[1], "initial",
                downloadableURLs \cup badURLs, "initial")
    /\ UNCHANGED <<downloadableURLs, badURLs, badArticles, retryLenOfIn, retryLenOfOut, passes>>
    /\ UNCHANGED linkvars
    /\ UNCHANGED <<tvars, rvars, fetches, pvars>>

\* lines 198-207: the retry pass reads the two registries; only the absence of
\* bad urls.csv is caught
RetryLoad ==
    /\ \/ dpc = "initial" /\ articlesURLs = {}
       \/ dpc = "retryLoad"
    /\ IF ~downloadableCsv.exists
       THEN /\ dpc' = "raised"
            /\ dErr' = "FileNotFoundError"
            /\ badURLs' = IF badUrlsCsv.exists
                          THEN urlColumn(badUrlsCsv, DoiUrlErrorHeader) ELSE {}
            /\ badArticles' = badUrlsCsv.rows (-) SetToBag({DoiUrlErrorHeader})
            /\ UNCHANGED <<downloadableURLs, retryLenOfIn>>
       ELSE /\ dpc' = "retry"
            /\ badURLs' = IF badUrlsCsv.exists
                          THEN urlColumn(badUrlsCsv, DoiUrlErrorHeader) ELSE {}
            /\ badArticles' = badUrlsCsv.rows (-) SetToBag({DoiUrlErrorHeader})
            /\ downloadableURLs' = urlColumn(downloadableCsv, DoiUrlExtHeader)
            /\ retryLenOfIn' = Cardinality(badURLs' \ downloadableURLs')
            /\ UNCHANGED dErr
    /\ passHanded' = {}
    /\ UNCHANGED <<articlesURLs, retryLenOfOut, passes, handed, skipped>>
    /\ UNCHANGED linkvars
    /\ UNCHANGED <<tvars, rvars, fvars, pvars>>

\* lines 209-225: one row of bad urls.csv
RetryPass ==
    /\ dpc = "retry"
    /\ \E r \in BagToSet(badArticles) :
        /\ badArticles' = badArticles (-) SetToBag({r})
        /\ turn(IF r[2] = Hashes THEN SkipUrl(r[2], FALSE)
                ELSE decide(r[1], r[2], downloadableURLs),
                r[1], "retry", downloadableURLs, "retry")
    /\ UNCHANGED <<articlesURLs, downloadableURLs, badURLs, retryLenOfIn, retryLenOfOut, passes>>
    /\ UNCHANGED linkvars
    /\ UNCHANGED <<tvars, rvars, fetches, pvars>>

\* lines 227-229: the count after the pass, and the test of the loop
RetryCount ==
    /\ dpc = "retry"
    /\ badArticles = EmptyBag
    /\ downloadableURLs' = urlColumn(downloadableCsv, DoiUrlExtHeader)
    /\ retryLenOfOut' = Cardinality(badURLs \ downloadableURLs')
    /\ passes' = passes + 1
    /\ dpc' = IF retryLenOfOut' < retryLenOfIn THEN "retryLoad" ELSE "done"
    /\ UNCHANGED <<dErr, articlesURLs, badURLs, badArticles, retryLenOfIn, handed, skipped,
                   passHanded>>
    /\ UNCHANGED linkvars
    /\ UNCHANGED <<tvars, rvars, fvars, pvars>>

NextPass ==
    \/ ExtractLinks
    \/ LoadRegistries
    \/ InitialPass
    \/ RetryLoad
    \/ RetryPass
    \/ RetryCount

SpecPass == InitPass /\ [][NextPass]_vars

\* ------------------------------------------------------------------ claims on the translators

\* C3: a source identifier that the persisted mapping registry already holds
\* (dois.csv for pmidTodoi, pmcids.csv for pmidTopmcid) is never sent to the
\* lookup service by a later run of translation.
C3_DoneNeverRequeried ==
    lastReq.kind \in {"esummary", "elink"} => ~lastReq.wasDone

C10_ReadsOwnResponse ==
    pc = "read" => summaryHandle = [state |-> "open", id |-> cur]

\* C8: a source identifier that a not-found registry of the translator holds
\* (not Found pmids.csv, not Found dois.csv) is never sent to the lookup service
\* again, whatever the registry files hold when they are read back.
C8_NotFoundPmidNeverRequeried ==
    lastReq.kind = "esummary" => ~lastReq.wasNotFound

\* C7: no source identifier is at once a key of the mapping registry (done) and
\* a row of a not-found registry of the translator.
C7_TranslatedAndNotFoundDisjoint ==
    csvTodictKeys(doisCsv) \cap (Cells(nfPmidsCsv) \cup Cells(nfDoisCsv)) = {}

\* ------------------------------------------------------------------ claims on the metadata stage

\* C1: a round never sends requests for a remaining set that is nonempty and
\* equal to the one the previous round computed: the loop has exited instead.
C1_NoRoundOnUnchangedRemaining ==
    (rpc = "for" /\ prevRemaining.known) => dois # prevRemaining.remaining

\* C2: when the script is run again after a finished run, with no process killed,
\* no exception and the services answering as before, the registries hold, as
\* sets, what the first run left: the later run adds no entry.
C2_SecondRunAddsNothing ==
    (firstResult.known /\ ~killed /\ raised = "no")
        => registries(notFoundCsv, articlesPkl) = firstResult

\* what a single uninterrupted run leaves in the registries, given the answers
uninterruptedResult ==
    [known |-> TRUE,
     notFound |-> normalised({ d \in doisCsvIn : crAnswer[d] = "notfound" }),
     articles |-> { d \in doisCsvIn : crAnswer[d] = "record" }
                    \cup { Upper(d) : d \in { e \in doisCsvIn : crAnswer[e] = "recordUpper" } }]

\* the first run of a behaviour, when it is neither killed nor ended by an
\* exception, leaves uninterruptedResult
UninterruptedRunResult ==
    (rpc = "resolved" /\ completions = 1 /\ ~killed /\ raised = "no")
        => registries(notFoundCsv, articlesPkl) = uninterruptedResult

\* C4: the first run that finishes, after any number of kills and restarts on
\* the same input and with the services answering identically, leaves the
\* registries equal, as sets, to those of a single uninterrupted run.
C4_CrashResumeSameRegistries ==
    (rpc = "resolved" /\ completions = 1 /\ raised = "no")
        => registries(notFoundCsv, articlesPkl) = uninterruptedResult

\* C7 on the metadata stage: no DOI is at once in the collected records and in
\* the not-found registry
C7_CollectedAndNotFoundDisjoint ==
    normalised(articlesPkl.dois) \cap normalised(Cells(notFoundCsv)) = {}

\* C8 on the metadata stage: a DOI that the not-found registry file holds is
\* never sent to the metadata service again
C8_NotFoundDoiNeverRequeried == lastWorks.asked => ~lastWorks.wasNotFound

\* C9: a transient error of the metadata service (transport, certificate, SSL,
\* timeout) does not end the round: it is never the exception that ends a process
C9_TransientDoesNotEndRound == raised # "transient"

\* ------------------------------------------------------------------ claims on download
\* the last call of download was a re-fetch over a file that is at least 33 bytes
\* larger than the body the server returned
smallerRefetch ==
    /\ lastFetch.outcome = "ok"
    /\ lastFetch.before[lastFetch.path].exists
    /\ lastFetch.len <= lastFetch.before[lastFetch.path].len - 33

\* C6: when an artifact file of N bytes exists for (identifier, extension) and a
\* re-fetch of the identifier returns at most N - 33 bytes, the fetch leaves the
\* file as it was, whichever transport made the request.
C6_SmallerRefetchKeepsFile ==
    smallerRefetch => artifacts = lastFetch.before

\* a 38-byte file met a 5-byte (or empty) re-fetch: both transports get there
C6_SmallerRefetchViaRequests ==
    /\ smallerRefetch
    /\ lastFetch.transport = "requests"
    /\ lastFetch.len = 5

C6_SmallerRefetchViaUrlLib ==
    /\ smallerRefetch
    /\ lastFetch.transport = "urllib"
    /\ lastFetch.len = 5

\* the rows a registry file holds below its header row
dataRows(f, headers) == f.rows (-) SetToBag({headers})

\* the rows the last call of download added to the two registries
downloadableAdded ==
    dataRows(downloadableCsv, DoiUrlExtHeader)
        (-) dataRows(lastFetch.downloadableBefore, DoiUrlExtHeader)

badAdded ==
    dataRows(badUrlsCsv, DoiUrlErrorHeader) (-) dataRows(lastFetch.badBefore, DoiUrlErrorHeader)

\* C11: when the probe answered 200 and the full request through the primary
\* transport fails at transport level (connection error, too many redirects),
\* that failure is not the outcome of the call: the secondary transport runs.
C11_FallsBackAfterPrimaryFailure ==
    (lastFetch.probe = "ok" /\ lastFetch.error \in {"connection", "redirects"})
        => lastFetch.transport = "urllib"

\* C12: a call of download that returns normally adds exactly one row to exactly
\* one registry: <<id, url, extension>> to the downloadable registry on success,
\* <<id, url, error text>> to the bad-URL registry on a recognised error, and it
\* removes no row.
C12_OneRowInOneRegistry ==
    lastFetch.outcome \in {"ok", "bad"} =>
        /\ lastFetch.downloadableBefore.rows \sqsubseteq downloadableCsv.rows
        /\ lastFetch.badBefore.rows \sqsubseteq badUrlsCsv.rows
        /\ BagCardinality(downloadableAdded) + BagCardinality(badAdded) = 1
        /\ lastFetch.outcome = "ok" =>
              downloadableAdded = SetToBag({<<lastFetch.doi, lastFetch.url, lastFetch.ext>>})
        /\ lastFetch.outcome = "bad" =>
              badAdded = SetToBag({<<lastFetch.doi, lastFetch.url, ErrorText>>})

\* C12 witness: a recognised error of the full request after an earlier success
C12_BadAfterDownloadable ==
    /\ lastFetch.outcome = "bad"
    /\ lastFetch.downloadableBefore.exists
    /\ BagCardinality(badAdded) = 1

\* C13: an exception that is not of the recognised classes, at any phase of the
\* call, leaves the registries as they were and is raised after the id and the
\* URL were printed.
C13_FatalIsLoggedAndUnrecorded ==
    lastFetch.outcome = "raised" =>
        /\ lastFetch.logged
        /\ downloadableCsv = lastFetch.downloadableBefore
        /\ badUrlsCsv = lastFetch.badBefore

\* the last call of download got as far as the full request
fetchStarted == lastFetch.outcome # "none" /\ lastFetch.transport # "none"

rateLimited ==
    lastFetch.remaining.present /\ lastFetch.reset.present /\ lastFetch.remaining.value < 2

\* C18 as stated: with both rate-limit headers and fewer than 2 remaining hits the
\* full request starts no earlier than the reported reset time plus one second;
\* otherwise it starts without a wait.
C18_StartsAfterResetPlusOne ==
    fetchStarted =>
        IF rateLimited THEN lastFetch.start >= lastFetch.reset.value + 1000
        ELSE lastFetch.start = lastFetch.now

\* C18 as amended: the full request starts no earlier than the reset time cut to
\* whole seconds plus one second, which is later than the reported reset time;
\* otherwise it starts without a wait.
C18_StartsAfterTruncatedResetPlusOne ==
    fetchStarted =>
        IF rateLimited
        THEN /\ lastFetch.start >= (lastFetch.reset.value \div 1000) * 1000 + 1000
             /\ lastFetch.start > lastFetch.reset.value
        ELSE lastFetch.start = lastFetch.now

\* C18 witness: a reset 2.3 s after the epoch, read at 1.5 s: the request starts at 3 s
C18_WaitedForReset ==
    /\ fetchStarted
    /\ rateLimited
    /\ lastFetch.reset.value = 2300
    /\ lastFetch.now = 1500
    /\ lastFetch.start = 3000

\* ------------------------------------------------------------------ claims on the pure functions
classified == fnPc = "done" /\ fnIn.fn = "decideExtension" /\ fnIn.url # None

\* what each of the four sources supplies for the call, None when it supplies nothing
fromContentType ==
    IF truthy(fnIn.contentType) THEN beforeFirst(afterLast(fnIn.contentType, "/"), ";")
    ELSE None

fromCrContentType ==
    IF truthy(fnIn.crContentType) /\ fnIn.crContentType # Unspecified
    THEN beforeFirst(afterLast(fnIn.crContentType, "/"), ";")
    ELSE None

fromContentDisposition ==
    IF truthy(fnIn.contentDisposition) THEN getExtension(fnIn.contentDisposition) ELSE None

fromUrl == getExtension(fnIn.url)

firstSupplied ==
    IF fromContentType # None THEN fromContentType
    ELSE IF fromCrContentType # None THEN fromCrContentType
    ELSE IF fromContentDisposition # None THEN fromContentDisposition
    ELSE fromUrl

\* C14: for an input with a URL, the extension selected by precedence is what the
\* first of content-type, vendor content-type (not "unspecified"),
\* content-disposition file name and URL file name that supplies one supplies,
\* and none only when none of the four supplies one.
C14_SelectsFirstSupplied == classified => fnOut.selected = firstSupplied

\* the result the overrides give for a selected extension and a URL
overridden(ext, url) ==
    IF contains(url, ApiElsevier) /\ ext \in {ExtPlain, ExtHtm, ExtHtml} THEN ExtTxt
    ELSE IF ext \in {ExtPlain, ExtHtm} THEN ExtHtml
    ELSE IF ext = ExtMsword THEN ExtDoc
    ELSE IF ext = ExtOctetStream THEN ExtPdf
    ELSE ext

\* C15: the result of the classifier is the selected extension with "plain",
\* "htm", "html" turned to "txt" for an api.elsevier URL, otherwise "plain" and
\* "htm" turned to "html", "msword" to "doc", "octet-stream" to "pdf", and every
\* other selection unchanged.
C15_OverridesInOrder == classified => fnOut.ext = overridden(fnOut.selected, fnIn.url)

\* C15 witness: {contentType: None, crContentType: "text/plain",
\* url: "https://api.elsevier.com/x.html"} gave "txt"
C15_VendorPlainIsTxt ==
    /\ classified
    /\ fnIn.contentType = None
    /\ fnIn.crContentType = <<"t", "e", "x", "t", "/", "p", "l", "a", "i", "n">>
    /\ fnIn.url = <<"h", "t", "t", "p", "s", ":", "/", "/", "a", "p", "i", ".", "e", "l", "s", "e", "v", "i", "e", "r", ".", "c", "o", "m", "/", "x", ".", "h", "t", "m", "l">>
    /\ fnOut.selected = ExtPlain
    /\ fnOut.ext = ExtTxt

RECURSIVE percentEncoded(_)
\* t with every slash written as %2F
percentEncoded(t) ==
    IF t = <<>> THEN <<>>
    ELSE IF Head(t) = "/" THEN <<"%", "2", "F">> \o percentEncoded(Tail(t))
    ELSE <<Head(t)>> \o percentEncoded(Tail(t))

\* C16: for an identifier "10.1017/s" + X with X not empty the result of
\* getCambridgeURL is the content-viewer URL ending in "/content/view/S" + X, and
\* for a springerlink URL with a DOI after "pdf/" the result of fixSpringerLinkURL
\* is "https://link.springer.com/content/pdf/" + the DOI with every slash as %2F.
C16_FixupsGiveCanonicalUrls ==
    (fnPc = "done" /\ fnIn.fn \in {"getCambridgeURL", "fixSpringerLinkURL"}
        /\ fnIn.rest # <<>>) =>
        IF fnIn.fn = "getCambridgeURL"
        THEN fnOut = <<"h", "t", "t", "p", "s", ":", "/", "/", "w", "w", "w", ".", "c", "a", "m", "b", "r", "i", "d", "g", "e", ".", "o", "r", "g", "/", "c", "o", "r", "e", "/", "s", "e", "r", "v", "i", "c", "e", "s", "/", "a", "o", "p", "-", "c", "a", "m", "b", "r", "i", "d", "g", "e", "-", "c", "o", "r", "e">> \o <<"/", "c", "o", "n", "t", "e", "n", "t", "/", "v", "i", "e", "w", "/", "S">> \o fnIn.rest
        ELSE fnOut = <<"h", "t", "t", "p", "s", ":", "/", "/", "l", "i", "n", "k", ".", "s", "p", "r", "i", "n", "g", "e", "r", ".", "c", "o", "m", "/", "c", "o", "n", "t", "e", "n", "t", "/", "p", "d", "f", "/">> \o percentEncoded(fnIn.rest)

\* C16 witness: a springerlink URL whose DOI holds two slashes was rewritten
C16_SpringerSlashesEncoded ==
    /\ fnPc = "done"
    /\ fnIn.fn = "fixSpringerLinkURL"
    /\ fnIn.rest = <<"1", "0", ".", "1", "0", "0", "7", "/", "s", "1", "/", "2">>
    /\ fnOut = <<"h", "t", "t", "p", "s", ":", "/", "/", "l", "i", "n", "k", ".", "s", "p", "r", "i", "n", "g", "e", "r", ".", "c", "o", "m", "/", "c", "o", "n", "t", "e", "n", "t", "/", "p", "d", "f", "/">> \o <<"1", "0", ".", "1", "0", "0", "7", "%", "2", "F", "s", "1", "%", "2", "F", "2">>

\* C19: every request to a remote service, and every record fetched, is for an identifier
\* of this run's requested set or for a PMCID obtained for one of them
C19_OnlyRequestedIdsAreFetched == lastReq.kind # "none" => lastReq.requested

\* C17: in the first pass no URL that was in the downloadable or in the bad-URL
\* registry when the pass loaded them is handed to download, whether it is the
\* link as the metadata gave it or the URL it was rewritten to.
C17_KnownUrlNeverHanded == handed.stage = "initial" => ~handed.known

\* a rewritten URL was found in a registry and skipped, and another URL was handed
C17_RewrittenKnownSkipped ==
    /\ skipped.stage = "initial"
    /\ skipped.rewritten
    /\ skipped.url \in downloadableURLs \cup badURLs
    /\ handed.stage = "initial"

\* C20: whatever the registries hold, the retry stage ends by leaving its loop: no
\* exception other than one of download ends it.
C20_RetryStopsWithCount == dpc = "raised" => dErr \in {"download", "IndexError"}

\* C21: in a retry pass a URL is handed to download at most once, and never after a
\* row for it is in the downloadable registry.
C21_HandedOncePerRetryPass ==
    handed.stage = "retry" => (~handed.again /\ ~handed.downloadable)

\* C22: a fetch whose probe let download go on makes its full request through one
\* transport: requests exactly when the probe answered 200, urllib when it answered
\* another status or failed with a connection error or too many redirects.
C22_TransportDecidedByProbe ==
    (lastFetch.outcome # "none" /\ lastFetch.error # "probe") =>
        /\ lastFetch.transport \in {"requests", "urllib"}
        /\ lastFetch.transport = "requests" <=> lastFetch.probe = "ok"
        /\ lastFetch.transport = "urllib" <=> lastFetch.probe \in {"notOk", "connError"}

\* a probe that failed with a connection error was followed by a fetch through urllib
C22_UrlLibAfterFailedProbe ==
    /\ lastFetch.probe = "connError"
    /\ lastFetch.transport = "urllib"
    /\ lastFetch.outcome = "ok"

\* the rows of file f that file f0 did not hold and whose first cell is p
rowsAdded(f, f0, p) ==
    LET d == f.rows (-) f0.rows
    IN  BagCardinality([r \in { x \in BagToSet(d) : x[1] = p } |-> CopiesIn(r, d)])

accumulated ==
    <<{ i[1] : i \in pmid_doi }, notFounddoisT, notFoundpmids, unicodeErrorpmids>>

\* a call of pmidTodoi went through a nonempty batch to its end
batchCompleted == entry = "pmidTodoi" /\ pc = "idle" /\ total > 0 /\ counter = total

\* C23: while pmidTodoi runs no identifier is in two accumulators; when it has gone
\* through a nonempty batch, the run has added exactly one row for each identifier
\* of the batch to the four registries taken together, the accumulators are empty
\* and no outcome is left unwritten.
C23_EachOutcomeWrittenOnce ==
    /\ \A a, b \in 1..4 : a # b => accumulated[a] \cap accumulated[b] = {}
    /\ batchCompleted =>
          /\ \A p \in runStart.pmids :
                rowsAdded(doisCsv, runStart.dois, p) + rowsAdded(unicodeCsv, runStart.unicode, p)
                  + rowsAdded(nfPmidsCsv, runStart.nfPmids, p)
                  + rowsAdded(nfDoisCsv, runStart.nfDois, p) = 1
          /\ \A a \in 1..4 : accumulated[a] = {}
          /\ unwritten = {}

\* a batch of three identifiers went through, with a mapping and a not-found outcome
C23_BatchOfThreeCompleted ==
    /\ batchCompleted
    /\ total = 3
    /\ \E p \in runStart.pmids : rowsAdded(doisCsv, runStart.dois, p) = 1
    /\ \E p \in runStart.pmids : rowsAdded(nfPmidsCsv, runStart.nfPmids, p) = 1

\* what the claim has recorded for a result of the link-graph service
recordedFor(linkSetDb) ==
    IF Len(linkSetDb) = 0 THEN <<"NoPMCID">>
    ELSE IF Len(linkSetDb) = 1 THEN linkSetDb[1][1]
    ELSE linkSetDb[1][1] \o <<"MoreThanPMCID">>

\* C24: the row built for a source identifier holds the sentinel for no link, the
\* linked identifier for one link, and the whole first linked identifier followed
\* by the multiplicity marker for several links.
C24_RowHoldsWholeFirstIdentifier ==
    (lastReq.kind = "elink" /\ row # None) => row = <<lastReq.id, recordedFor(lastReq.result)>>

\* the first pass has gone through its items
firstPassOver == dpc = "initial" /\ articlesURLs = {}

\* C25: a Cambridge article whose metadata record holds no link has its viewer URL
\* handed to download in the first pass, unless a registry knows the URL.
C25_CambridgeWithoutLinkHanded ==
    firstPassOver =>
        \A doi \in doisWithNoLink :
            (contains(doi, CambridgeMark)
                /\ unknownUrl(getCambridgeURL(doi), downloadableURLs \cup badURLs))
            => getCambridgeURL(doi) \in passHanded

\* C26: when pmidTopmcid has returned to grabViaPMCOAI, and so when the stage ends and
\* grab() goes on to grabViaCrossref, self.pmids is the collection grab() was called on.
C26_RepositoryStageKeepsRequested ==
    pc \in {"readPmcids", "pmcidToXml", "writeNoTxt"} => selfPmids = pmidsIn

\* C27: every row (DOI, URL, extension) of the downloadable registry has its file
\* on disk at the path of that DOI and extension.
C27_DownloadableRowHasFile ==
    \A r \in BagToSet(dataRows(downloadableCsv, DoiUrlExtHeader)) :
        artifacts[createFile(r[1], r[3])].exists

\* C28: reading the registries never ends the download stage: a registry file that
\* does not exist is read as the empty set.
C28_MissingRegistryReadAsEmpty == dErr # "FileNotFoundError"

\* C29: decideExtension returns for every combination of present and absent inputs,
\* an input without URL included.
C29_ClassifierNeverRaises ==
    (fnPc = "done" /\ fnIn.fn = "decideExtension") => fnOut.ext # TypeError

====
